---- MODULE Spec2Model ----
(***************************************************************************)
(* Trade journal: lot accounting engines and importers.                    *)
(*                                                                         *)
(* Numbers.  The TypeScript code computes with IEEE doubles.  Quantities   *)
(* and prices are drawn from integers here, and the two derived            *)
(* quantities that need division (the weighted average price and the       *)
(* realized P/L built from it) are exact rationals [n, d] in lowest terms. *)
(* Floating point rounding drift is not modelled.                          *)
(*                                                                         *)
(* Dates are day numbers 1..MaxDate (ISO strings in the code, compared     *)
(* lexicographically, which is chronological order); NoDate is null.       *)
(***************************************************************************)
EXTENDS Integers, Sequences, FiniteSets, TLC

VARIABLES
    importer,   \* which command is running
    pc,         \* position of the running importer in its body
    contract,   \* the (account, contract) pair whose events are followed
    events,     \* the sorted events array, as far as the loop has consumed it
    positions,  \* Map<string, PositionState> of the running importer
    ledger,     \* pages of the store, by page id (index)
    raw,        \* raw "Trade Action" cell handed to toEvent
    parsed,     \* what toEvent made of raw and of CANCEL_ + raw
    manualIndex,\* Map<string, ManualStrategyTags> the running importer loaded
    env,        \* environment switches the running command reads
    calls       \* store write calls a reconcile command issued, in order

vars == <<importer, pc, contract, events, positions, ledger, raw, parsed, manualIndex, env, calls>>

importVars == <<importer, pc, contract, events, positions, ledger>>

parseVars == <<raw, parsed>>

runVars == <<manualIndex, env, calls>>

(***************************************************************************)
(* Bounds of the model.                                                    *)
(***************************************************************************)
MaxEvents == 3
MaxDate == 3
MaxRawLen == 2
MaxCsvDate == 2

NoDate == 0
Dates == 1 .. MaxDate

\* trade dates of the rows of the Public and Fidelity CSV files
CsvDates == 1 .. MaxCsvDate

(***************************************************************************)
(* Exact rational arithmetic.                                              *)
(***************************************************************************)
Abs(x) == IF x < 0 THEN -x ELSE x

Min(a, b) == IF a < b THEN a ELSE b

Max(a, b) == IF a > b THEN a ELSE b

RECURSIVE Gcd(_, _)
Gcd(a, b) == IF b = 0 THEN a ELSE Gcd(b, a % b)

Norm(n, d) ==
    LET s == IF d < 0 THEN -1 ELSE 1
        g == Gcd(Abs(n), Abs(d))
    IN  [n |-> (s * n) \div g, d |-> (s * d) \div g]

R(i) == [n |-> i, d |-> 1]

RAdd(a, b) == Norm(a.n * b.d + b.n * a.d, a.d * b.d)

RSub(a, b) == Norm(a.n * b.d - b.n * a.d, a.d * b.d)

RMul(a, b) == Norm(a.n * b.n, a.d * b.d)

RDiv(a, b) == Norm(a.n * b.d, a.d * b.n)

\* Math.round(value * 100) / 100: round half up to cents
round2(v) == Norm((200 * v.n + v.d) \div (2 * v.d), 100)

(***************************************************************************)
(* Contracts and fills the events are drawn from.                          *)
(***************************************************************************)
StockContract ==
    [ticker |-> "AAPL", contractKey |-> "AAPL", tradeType |-> "Stock", multiplier |-> 1]

CallContract ==
    [ticker |-> "AAPL", contractKey |-> "AAPL 250117C00200000", tradeType |-> "Call",
     multiplier |-> 100]

Contracts == {StockContract, CallContract}

\* <<qty, price>> of a fill: qty > 0 and price >= 0, as toEvent lets through
Fills == {<<10, 5>>, <<4, 8>>, <<6, 9>>, <<6, 50>>, <<10, 40>>}

Last(s) == s[Len(s)]

\* events.sort by `${date}|${account}|${contractKey}|${action}`: for one
\* (account, contract) the order is by date and then "BUY" before "SELL"
SortedAfter(prev, e) ==
    \/ e.date > prev.date
    \/ e.date = prev.date /\ ~(prev.action = "SELL" /\ e.action = "BUY")

CanFollow(e) == IF events = << >> THEN TRUE ELSE SortedAfter(Last(events), e)

StateKey(c) == c.contractKey

(***************************************************************************)
(* Direction-based engine (Robinhood CSV importer).                        *)
(***************************************************************************)
\* the PositionState literal of runImportRobinhood
NewPositionRobinhood(e) ==
    [ticker |-> e.ticker,
     contractKey |-> e.contractKey,
     openQty |-> 0,
     avgOpenPrice |-> R(0),
     totalOpenedQty |-> 0,
     totalOpenedNotional |-> 0,
     totalClosedQty |-> 0,
     totalClosedNotional |-> 0,
     realizedPl |-> R(0),
     openDate |-> NoDate,
     closeDate |-> NoDate,
     hasLongExposure |-> FALSE,
     hasShortExposure |-> FALSE]

\* (heldQty * avg + q * px) / newQty, or 0 when newQty is not positive
WeightedAvg(heldQty, avg, q, px, newQty) ==
    IF newQty > 0
    THEN RDiv(RAdd(RMul(R(heldQty), avg), R(q * px)), R(newQty))
    ELSE R(0)

\* BUY while flat or long: add to the long side
BuyAddsLong(p, e) ==
    LET newQty == p.openQty + e.qty
    IN  [p EXCEPT
            !.hasLongExposure = TRUE,
            !.avgOpenPrice = WeightedAvg(p.openQty, p.avgOpenPrice, e.qty, e.price, newQty),
            !.openQty = newQty,
            !.totalOpenedQty = @ + e.qty,
            !.totalOpenedNotional = @ + e.qty * e.price,
            !.openDate = IF p.openDate = NoDate THEN e.date ELSE @]

\* BuyCoversShort with the long-side P/L formula (price - avgOpenPrice)
BuyCoversShortLongSign(p, e) ==
    LET shortQty == Abs(p.openQty)
        closingQty == Min(e.qty, shortQty)
        covered ==
            [p EXCEPT
                !.realizedPl =
                    RAdd(@, RMul(RSub(R(e.price), p.avgOpenPrice), R(closingQty * e.multiplier))),
                !.totalClosedQty = @ + closingQty,
                !.totalClosedNotional = @ + closingQty * e.price,
                !.openQty = @ + closingQty]
        flat == IF covered.openQty = 0 THEN [covered EXCEPT !.closeDate = e.date] ELSE covered
        remainder == e.qty - closingQty
    IN  IF remainder > 0
        THEN [flat EXCEPT
                !.hasLongExposure = TRUE,
                !.openQty = remainder,
                !.avgOpenPrice = R(e.price),
                !.totalOpenedQty = @ + remainder,
                !.totalOpenedNotional = @ + remainder * e.price,
                !.openDate = e.date,
                !.closeDate = NoDate]
        ELSE flat

\* BuyCoversShort that keeps the old average and open date on a flip
BuyCoversShortNoReset(p, e) ==
    LET shortQty == Abs(p.openQty)
        closingQty == Min(e.qty, shortQty)
        covered ==
            [p EXCEPT
                !.realizedPl =
                    RAdd(@, RMul(RSub(p.avgOpenPrice, R(e.price)), R(closingQty * e.multiplier))),
                !.totalClosedQty = @ + closingQty,
                !.totalClosedNotional = @ + closingQty * e.price,
                !.openQty = @ + closingQty]
        flat == IF covered.openQty = 0 THEN [covered EXCEPT !.closeDate = e.date] ELSE covered
        remainder == e.qty - closingQty
    IN  IF remainder > 0
        THEN [flat EXCEPT
                !.hasLongExposure = TRUE,
                !.openQty = remainder,
                !.totalOpenedQty = @ + remainder,
                !.totalOpenedNotional = @ + remainder * e.price,
                !.closeDate = NoDate]
        ELSE flat

\* BUY while short: cover, and flip to long with what is left of the fill
BuyCoversShort(p, e) ==
    LET shortQty == Abs(p.openQty)
        closingQty == Min(e.qty, shortQty)
        covered ==
            [p EXCEPT
                !.realizedPl =
                    RAdd(@, RMul(RSub(p.avgOpenPrice, R(e.price)), R(closingQty * e.multiplier))),
                !.totalClosedQty = @ + closingQty,
                !.totalClosedNotional = @ + closingQty * e.price,
                !.openQty = @ + closingQty]
        flat == IF covered.openQty = 0 THEN [covered EXCEPT !.closeDate = e.date] ELSE covered
        remainder == e.qty - closingQty
    IN  IF remainder > 0
        THEN [flat EXCEPT
                !.hasLongExposure = TRUE,
                !.openQty = remainder,
                !.avgOpenPrice = R(e.price),
                !.totalOpenedQty = @ + remainder,
                !.totalOpenedNotional = @ + remainder * e.price,
                !.openDate = e.date,
                !.closeDate = NoDate]
        ELSE flat

\* SELL while flat or short: add to the short side
SellAddsShort(p, e) ==
    LET shortQty == Abs(p.openQty)
        newQty == shortQty + e.qty
    IN  [p EXCEPT
            !.hasShortExposure = TRUE,
            !.avgOpenPrice = WeightedAvg(shortQty, p.avgOpenPrice, e.qty, e.price, newQty),
            !.openQty = -newQty,
            !.totalOpenedQty = @ + e.qty,
            !.totalOpenedNotional = @ + e.qty * e.price,
            !.openDate = IF p.openDate = NoDate THEN e.date ELSE @]

\* SellClosesLong without `if (p.openQty === 0) p.closeDate = e.date`
SellClosesLongNoCloseDate(p, e) ==
    LET closingQty == Min(e.qty, p.openQty)
        closed ==
            [p EXCEPT
                !.realizedPl =
                    RAdd(@, RMul(RSub(R(e.price), p.avgOpenPrice), R(closingQty * e.multiplier))),
                !.totalClosedQty = @ + closingQty,
                !.totalClosedNotional = @ + closingQty * e.price,
                !.openQty = @ - closingQty]
        remainder == e.qty - closingQty
    IN  IF remainder > 0
        THEN [closed EXCEPT
                !.hasShortExposure = TRUE,
                !.openQty = -remainder,
                !.avgOpenPrice = R(e.price),
                !.totalOpenedQty = @ + remainder,
                !.totalOpenedNotional = @ + remainder * e.price,
                !.openDate = e.date,
                !.closeDate = NoDate]
        ELSE closed

\* SELL while long: close, and flip to short with what is left of the fill
SellClosesLong(p, e) ==
    LET closingQty == Min(e.qty, p.openQty)
        closed ==
            [p EXCEPT
                !.realizedPl =
                    RAdd(@, RMul(RSub(R(e.price), p.avgOpenPrice), R(closingQty * e.multiplier))),
                !.totalClosedQty = @ + closingQty,
                !.totalClosedNotional = @ + closingQty * e.price,
                !.openQty = @ - closingQty]
        flat == IF closed.openQty = 0 THEN [closed EXCEPT !.closeDate = e.date] ELSE closed
        remainder == e.qty - closingQty
    IN  IF remainder > 0
        THEN [flat EXCEPT
                !.hasShortExposure = TRUE,
                !.openQty = -remainder,
                !.avgOpenPrice = R(e.price),
                !.totalOpenedQty = @ + remainder,
                !.totalOpenedNotional = @ + remainder * e.price,
                !.openDate = e.date,
                !.closeDate = NoDate]
        ELSE flat

upsertPositionFromEventRobinhood(p, e) ==
    IF e.action = "BUY"
    THEN IF p.openQty >= 0 THEN BuyAddsLong(p, e) ELSE BuyCoversShort(p, e)
    ELSE IF p.openQty <= 0 THEN SellAddsShort(p, e) ELSE SellClosesLong(p, e)

inferPositionSide(p) ==
    IF p.hasLongExposure /\ ~p.hasShortExposure THEN "BUY"
    ELSE IF p.hasShortExposure /\ ~p.hasLongExposure THEN "SELL"
    ELSE "null"

\* toEvent of robinhood.ts, from the row's date, Trans Code, Quantity and Price
RobinhoodEvents ==
    { [date |-> d, action |-> a, qty |-> f[1], price |-> f[2],
       ticker |-> contract.ticker, contractKey |-> contract.contractKey,
       tradeType |-> contract.tradeType, multiplier |-> contract.multiplier] :
        d \in Dates, a \in {"BUY", "SELL"}, f \in Fills }

(***************************************************************************)
(* Ledger store: pages created and updated by the importers.               *)
(***************************************************************************)
\* a number property that was never written
NullNumber == [n |-> 0, d |-> 0]

EmptyMap == [k \in {} |-> 0]

\* FIDELITY_CSV_RECONCILE_DRY_RUN and FIDELITY_CSV_FORCE_EXPIRE unset
DefaultEnv == [dryRun |-> FALSE, forceExpireClose |-> FALSE]

\* the entry the call log gets when the command is invoked a second time
RunMarker == [op |-> "run", pageId |-> 0, tradeDate |-> NoDate]

\* index of the marker in the call log, 0 during the first run
SecondRunStart ==
    LET set == {i \in 1 .. Len(calls) : calls[i] = RunMarker}
    IN  IF set = {} THEN 0 ELSE CHOOSE i \in set : TRUE

\* the first run reads the source; a second run reads the same rows again,
\* parsed holding the ones it has read
FirstRun == SecondRunStart = 0

SourceExhausted == FirstRun \/ Len(parsed) = Len(events)

MapSet(map, k, v) == [x \in DOMAIN map \cup {k} |-> IF x = k THEN v ELSE map[x]]

\* inferTradeTypeFromContract on the contract keys of the model
inferTradeTypeFromContract(contractKey, ticker) ==
    IF contractKey \in {"AAPL 250117C00200000", "AAPL250117C200"} THEN "Call"
    ELSE IF contractKey # "" /\ contractKey = ticker THEN "Stock"
    ELSE "null"

\* properties written by createPositionPage; status is always OPEN
createPositionPage(params) ==
    [ticker |-> params.ticker,
     contractKey |-> params.contractKey,
     status |-> "OPEN",
     qty |-> params.qty,
     fillPrice |-> params.avgPrice,
     side |-> params.side,
     tradeType |->
        IF params.tradeType # "null" THEN params.tradeType
        ELSE inferTradeTypeFromContract(params.contractKey, params.ticker),
     tradeDate |-> params.openDate,
     lastAddDate |-> params.lastAddDate,
     broker |-> params.broker,
     account |-> params.account,
     strategy |-> IF params.strategy = "undefined" THEN "null" ELSE params.strategy,
     tags |-> params.tags,
     closeDate |-> NoDate,
     closePrice |-> NullNumber,
     plAtClose |-> NullNumber,
     archived |-> FALSE]

\* an update that writes the properties of createPositionPage, the empty
\* strategy and tags among them
updatePositionPageResetsUserFields(page, params) ==
    [page EXCEPT
        !.ticker = params.ticker,
        !.contractKey = params.contractKey,
        !.status = params.status,
        !.qty = params.qty,
        !.fillPrice = params.avgPrice,
        !.strategy = "null",
        !.tags = << >>]

\* properties written by updatePositionPage; the close fields only for CLOSED
updatePositionPage(page, params) ==
    LET base ==
            [page EXCEPT
                !.ticker = params.ticker,
                !.contractKey = params.contractKey,
                !.status = params.status,
                !.qty = params.qty,
                !.fillPrice = params.avgPrice,
                !.side = params.side,
                !.tradeType =
                    IF params.tradeType # "null" THEN params.tradeType
                    ELSE inferTradeTypeFromContract(params.contractKey, params.ticker)]
    IN  IF params.status = "OPEN"
        THEN [base EXCEPT
                !.lastAddDate = IF params.lastAddDate # NoDate THEN params.lastAddDate ELSE @]
        ELSE [base EXCEPT
                !.closeDate = IF params.closeDate # NoDate THEN params.closeDate ELSE @,
                !.closePrice = IF params.closePrice # NullNumber THEN params.closePrice ELSE @,
                !.plAtClose = IF params.realizedPl # NullNumber THEN params.realizedPl ELSE @]

(***************************************************************************)
(* Manual strategy/tags index and the archive calls of the rebuilds.       *)
(***************************************************************************)
\* the account the events of an importer carry
EventAccount ==
    CASE importer \in {"import-fidelity-csv-history", "reconcile-fidelity-csv"} -> "TAXABLE FUN"
      [] OTHER -> "Brokerage Account"

\* value.trim().replace(/\s+/g, "").toUpperCase() on the accounts and the
\* contract keys of the model
normalizeManualKeyPart(value) ==
    CASE value = "Brokerage Account" -> "BROKERAGEACCOUNT"
      [] value = "TAXABLE FUN" -> "TAXABLEFUN"
      [] value = "AAPL 250117C00200000" -> "AAPL250117C00200000"
      [] OTHER -> value

\* `${account}|${contractKey}|${openDate ?? ""}`, the fields kept apart
manualKeyForPosition(account, contractKey, openDate) ==
    <<"", normalizeManualKeyPart(account), normalizeManualKeyPart(contractKey), openDate>>

\* `LOOSE|${account}|${contractKey}`
manualKeyForPositionLoose(account, contractKey) ==
    <<"LOOSE", normalizeManualKeyPart(account), normalizeManualKeyPart(contractKey), NoDate>>

\* Array.from(new Set(tags)): the first occurrence of each tag, in order
RECURSIVE uniqueTags(_)
uniqueTags(tags) ==
    IF tags = << >> THEN << >>
    ELSE LET front == uniqueTags(SubSeq(tags, 1, Len(tags) - 1))
             t == tags[Len(tags)]
         IN  IF \E i \in 1 .. Len(front) : front[i] = t THEN front ELSE Append(front, t)

\* variant that concatenates the two tag lists as they are
mergeManualNoUnion(a, b) ==
    [strategy |-> IF a.strategy # "null" THEN a.strategy ELSE b.strategy,
     tags |-> a.tags \o b.tags]

\* a.strategy ?? b.strategy ?? null and the union of the tags
mergeManual(a, b) ==
    [strategy |-> IF a.strategy # "null" THEN a.strategy ELSE b.strategy,
     tags |-> uniqueTags(a.tags \o b.tags)]

\* what `manual?.strategy ?? undefined` and `manual?.tags ?? undefined`
\* read from a missing entry
NoManual == [strategy |-> "null", tags |-> << >>]

lookupManualStrategyTags(index, account, contractKey, openDate) ==
    LET exactKey == manualKeyForPosition(account, contractKey, openDate)
        looseKey == manualKeyForPositionLoose(account, contractKey)
    IN  IF exactKey \in DOMAIN index THEN index[exactKey]
        ELSE IF looseKey \in DOMAIN index THEN index[looseKey]
        ELSE NoManual

\* manualIndex.get(manualKeyForPosition(account, contractKey, openDate))
getManual(index, account, contractKey, openDate) ==
    LET exactKey == manualKeyForPosition(account, contractKey, openDate)
    IN  IF exactKey \in DOMAIN index THEN index[exactKey] ELSE NoManual

\* `manual?.strategy ?? undefined`
strategyOrUndefined(manual) ==
    IF manual.strategy = "null" THEN "undefined" ELSE manual.strategy

\* index.set under the exact and the loose key of one page
indexPage(index, page) ==
    LET value == [strategy |-> page.strategy, tags |-> page.tags]
        exactKey == manualKeyForPosition(page.account, page.contractKey, page.tradeDate)
        looseKey == manualKeyForPositionLoose(page.account, page.contractKey)
        withExact ==
            MapSet(index, exactKey,
                   IF exactKey \in DOMAIN index THEN mergeManual(index[exactKey], value)
                   ELSE value)
    IN  MapSet(withExact, looseKey,
               IF looseKey \in DOMAIN withExact THEN mergeManual(withExact[looseKey], value)
               ELSE value)

\* the pages of the store in query order, from page n on
RECURSIVE loadManualFrom(_, _, _, _)
loadManualFrom(pages, n, brokerNameExact, index) ==
    IF n > Len(pages) THEN index
    ELSE LET page == pages[n]
             skipped ==
                \/ page.broker # brokerNameExact
                \/ page.archived
                \/ page.account = ""
                \/ page.contractKey = ""
                \/ (page.strategy = "null" /\ page.tags = << >>)
         IN  loadManualFrom(pages, n + 1, brokerNameExact,
                            IF skipped THEN index ELSE indexPage(index, page))

loadManualStrategyTagsIndexForBroker(pages, brokerNameExact) ==
    loadManualFrom(pages, 1, brokerNameExact, EmptyMap)

\* brokerName.startsWith(prefix) on the broker labels of the model
startsWith(brokerName, prefix) ==
    \/ brokerName = prefix
    \/ prefix = "Fidelity" /\ brokerName = "Fidelity (CSV)"
    \/ prefix = "Public" /\ brokerName = "Public (CSV)"

archiveTradePagesByBrokerPrefix(pages, prefix) ==
    [i \in 1 .. Len(pages) |->
        IF ~pages[i].archived /\ startsWith(pages[i].broker, prefix)
        THEN [pages[i] EXCEPT !.archived = TRUE]
        ELSE pages[i]]

\* variant that leaves every page live
archiveTradePagesByExactBrokerNone(pages, brokerNameExact) == pages

archiveTradePagesByExactBroker(pages, brokerNameExact) ==
    [i \in 1 .. Len(pages) |->
        IF ~pages[i].archived /\ pages[i].broker = brokerNameExact
        THEN [pages[i] EXCEPT !.archived = TRUE]
        ELSE pages[i]]

\* /\s\d{6}[CP]\d{8}$/ on the contract keys of the model
IsOccOptionKey(contractKey) == contractKey = CallContract.contractKey

(***************************************************************************)
(* runImportRobinhood: the event loop and the row creation loop.           *)
(***************************************************************************)
\* a position is written only if something was opened and it has an open date
RobinhoodSkips(p) == p.totalOpenedQty <= 0 \/ p.openDate = NoDate

\* a writer that closes every row
RobinhoodIsClosedAlways(p) == TRUE

\* Math.abs(p.openQty) < 1e-9 && p.closeDate
RobinhoodIsClosed(p) == p.openQty = 0 /\ p.closeDate # NoDate

\* the page one position leaves in the store: create, then update when closed
RobinhoodPage(p) ==
    LET avgOpenPrice ==
            IF p.totalOpenedQty > 0
            THEN RDiv(R(p.totalOpenedNotional), R(p.totalOpenedQty))
            ELSE R(0)
        avgClosePrice ==
            IF p.totalClosedQty > 0
            THEN RDiv(R(p.totalClosedNotional), R(p.totalClosedQty))
            ELSE NullNumber
        isOption == IsOccOptionKey(p.contractKey)
        multiplier == IF isOption THEN 100 ELSE 1
        tradeType == IF isOption THEN "Call" ELSE "Stock"
        side == inferPositionSide(p)
        manual == lookupManualStrategyTags(manualIndex, EventAccount, p.contractKey, p.openDate)
        page ==
            createPositionPage(
                [ticker |-> p.ticker,
                 contractKey |-> p.contractKey,
                 qty |-> round2(R(p.totalOpenedQty)),
                 avgPrice |-> round2(RMul(avgOpenPrice, R(multiplier))),
                 side |-> side,
                 tradeType |-> tradeType,
                 openDate |-> p.openDate,
                 lastAddDate |-> NoDate,
                 broker |-> "Robinhood (CSV)",
                 account |-> EventAccount,
                 strategy |-> "undefined",
                 tags |-> manual.tags])
    IN  IF RobinhoodIsClosed(p)
        THEN updatePositionPage(page,
                [ticker |-> p.ticker,
                 contractKey |-> p.contractKey,
                 qty |-> round2(R(p.totalOpenedQty)),
                 avgPrice |-> round2(RMul(avgOpenPrice, R(multiplier))),
                 side |-> side,
                 tradeType |-> tradeType,
                 status |-> "CLOSED",
                 lastAddDate |-> NoDate,
                 closeDate |-> p.closeDate,
                 closePrice |->
                    IF avgClosePrice = NullNumber THEN NullNumber
                    ELSE round2(RMul(avgClosePrice, R(multiplier))),
                 realizedPl |-> round2(p.realizedPl)])
        ELSE page

RobinhoodInit ==
    /\ importer = "import-robinhood"
    /\ pc = "events"
    /\ contract \in Contracts
    /\ events = << >>
    /\ positions = EmptyMap
    /\ ledger = << >>
    /\ raw = << >>
    /\ parsed = << >>
    /\ manualIndex = EmptyMap
    /\ env = DefaultEnv
    /\ calls = << >>

\* one iteration of `for (const e of events)`
RobinhoodApplyEvent ==
    /\ FirstRun
    /\ importer = "import-robinhood"
    /\ pc = "events"
    /\ Len(events) < MaxEvents
    /\ \E e \in RobinhoodEvents :
        /\ CanFollow(e)
        /\ LET key == StateKey(e)
               p == IF key \in DOMAIN positions THEN positions[key]
                    ELSE NewPositionRobinhood(e)
           IN  positions' = MapSet(positions, key, upsertPositionFromEventRobinhood(p, e))
        /\ events' = Append(events, e)
    /\ UNCHANGED <<importer, pc, contract, ledger>>
    /\ UNCHANGED parseVars
    /\ UNCHANGED runVars

\* `for (const p of positions.values())` once the events are exhausted
RobinhoodCreateRows ==
    /\ SourceExhausted
    /\ importer = "import-robinhood"
    /\ pc = "events"
    /\ pc' = "done"
    /\ ledger' =
        IF \E k \in DOMAIN positions : ~RobinhoodSkips(positions[k])
        THEN Append(ledger, RobinhoodPage(positions[StateKey(contract)]))
        ELSE ledger
    /\ UNCHANGED <<importer, contract, events, positions>>
    /\ UNCHANGED parseVars
    /\ UNCHANGED runVars

RobinhoodNext == RobinhoodApplyEvent \/ RobinhoodCreateRows

SpecRobinhood == RobinhoodInit /\ [][RobinhoodNext]_vars

(***************************************************************************)
(* Properties of the direction-based engine.                               *)
(***************************************************************************)
IsoDate(d) ==
    CASE d = 1 -> "2025-01-02"
      [] d = 2 -> "2025-01-10"
      [] d = 3 -> "2025-02-01"
      [] OTHER -> "later"

HasPosition == StateKey(contract) \in DOMAIN positions

\* an event has just been consumed by the loop
Stepped == Len(events') = Len(events) + 1

\* the position the event of this step was applied to
RobinhoodBefore ==
    IF HasPosition THEN positions[StateKey(contract)] ELSE NewPositionRobinhood(contract)

After == positions'[StateKey(contract)]

Ev(d, a, q, px) ==
    [date |-> d, action |-> a, qty |-> q, price |-> px,
     ticker |-> "AAPL", contractKey |-> StockContract.contractKey, tradeType |-> "Stock",
     multiplier |-> 1]

\* C1: BUY 10 @ 5 (2025-01-02), SELL 4 @ 8 (2025-01-10), SELL 6 @ 9
\* (2025-02-01) on one equity contract give openQty 10 and avgOpenPrice 5,
\* then realizedPl 12 and openQty 6, then realizedPl 36, openQty 0 and
\* closeDate 2025-02-01.
C1_EndToEnd ==
    LET e1 == Ev(1, "BUY", 10, 5)
        e2 == Ev(2, "SELL", 4, 8)
        e3 == Ev(3, "SELL", 6, 9)
        p == positions[StateKey(contract)]
    IN  /\ events = <<e1>> => p.openQty = 10 /\ p.avgOpenPrice = R(5)
        /\ events = <<e1, e2>> => p.realizedPl = R(12) /\ p.openQty = 6
        /\ events = <<e1, e2, e3>> =>
            /\ p.realizedPl = R(36)
            /\ p.openQty = 0
            /\ IsoDate(p.closeDate) = "2025-02-01"

C1_Witness ==
    /\ events = <<Ev(1, "BUY", 10, 5), Ev(2, "SELL", 4, 8), Ev(3, "SELL", 6, 9)>>
    /\ positions[StateKey(contract)].openQty = 0

\* C2: a BUY larger than the open short covers the short at
\* (avgOpenPrice - price) * shortQty * multiplier and opens a long for the
\* remainder at the fill price, with openDate the event date and closeDate
\* cleared (BUY 10 @ 40 on short 6 @ 50: realized 60 * multiplier, openQty 4,
\* avgOpenPrice 40); a SELL larger than the open long is the mirror image.
C2_Flip ==
    [][Stepped =>
        LET e == Last(events')
            p == RobinhoodBefore
            q == After
        IN  /\ (e.action = "BUY" /\ p.openQty < 0 /\ e.qty > -p.openQty) =>
                /\ q.realizedPl =
                    RAdd(p.realizedPl,
                         RMul(RSub(p.avgOpenPrice, R(e.price)), R((-p.openQty) * e.multiplier)))
                /\ q.openQty = e.qty + p.openQty
                /\ q.avgOpenPrice = R(e.price)
                /\ q.openDate = e.date
                /\ q.closeDate = NoDate
            /\ (e.action = "BUY" /\ e.qty = 10 /\ e.price = 40
                    /\ p.openQty = -6 /\ p.avgOpenPrice = R(50)) =>
                /\ q.realizedPl = RAdd(p.realizedPl, R(60 * e.multiplier))
                /\ q.openQty = 4
                /\ q.avgOpenPrice = R(40)
            /\ (e.action = "SELL" /\ p.openQty > 0 /\ e.qty > p.openQty) =>
                /\ q.realizedPl =
                    RAdd(p.realizedPl,
                         RMul(RSub(R(e.price), p.avgOpenPrice), R(p.openQty * e.multiplier)))
                /\ q.openQty = -(e.qty - p.openQty)
                /\ q.avgOpenPrice = R(e.price)
                /\ q.openDate = e.date
                /\ q.closeDate = NoDate
    ]_vars

\* SELL 6 @ 50 from flat, then BUY 10 @ 40: the short of 6 has been flipped into a long of 4
C2_Witness ==
    /\ Len(events) = 2
    /\ events[1].action = "SELL" /\ events[1].qty = 6 /\ events[1].price = 50
    /\ events[2].action = "BUY" /\ events[2].qty = 10 /\ events[2].price = 40
    /\ positions[StateKey(contract)].openQty = 4
    /\ positions[StateKey(contract)].openDate = events[2].date

\* C3: as long as no fill crosses zero, an opening fill leaves realizedPl
\* unchanged, and a closing fill adds (price - avgOpenPrice) * qty * multiplier
\* (sign flipped when it closes a short) and leaves avgOpenPrice unchanged; so
\* realizedPl, which starts at 0, is the sum of these terms over the closing
\* fills.
C3_RealizedIsSumOfCloses ==
    [][Stepped =>
        LET e == Last(events')
            p == RobinhoodBefore
            q == After
            opening == \/ p.openQty = 0
                       \/ p.openQty > 0 /\ e.action = "BUY"
                       \/ p.openQty < 0 /\ e.action = "SELL"
            crossing == ~opening /\ e.qty > Abs(p.openQty)
        IN  /\ ~HasPosition => p.realizedPl = R(0)
            /\ opening => q.realizedPl = p.realizedPl
            /\ (~opening /\ ~crossing /\ p.openQty > 0) =>
                /\ q.realizedPl =
                    RAdd(p.realizedPl,
                         RMul(RSub(R(e.price), p.avgOpenPrice), R(e.qty * e.multiplier)))
                /\ q.avgOpenPrice = p.avgOpenPrice
            /\ (~opening /\ ~crossing /\ p.openQty < 0) =>
                /\ q.realizedPl =
                    RAdd(p.realizedPl,
                         RMul(RSub(p.avgOpenPrice, R(e.price)), R(e.qty * e.multiplier)))
                /\ q.avgOpenPrice = p.avgOpenPrice
    ]_vars

\* a partial close of a position built from two fills at different prices,
\* with no flip anywhere in the sequence
C3_Witness ==
    /\ Len(events) = 3
    /\ HasPosition
    /\ LET p == positions[StateKey(contract)]
       IN  /\ p.totalClosedQty > 0
           /\ p.openQty # 0
           /\ ~(p.hasLongExposure /\ p.hasShortExposure)
           /\ p.avgOpenPrice.d # 1
           /\ p.realizedPl # R(0)

(***************************************************************************)
(* Public CSV importer: reading the "Trade Action" cell.                   *)
(*                                                                         *)
(* A cell is a sequence of tokens; a token stands for the run of           *)
(* characters it spells, " " for white space, "DIV" for any text that      *)
(* holds neither BUY nor SELL.                                             *)
(***************************************************************************)
Tokens ==
    {"CANCEL_", "cancel_", "BUY_TO_OPEN", "BTO", "bto", "SELL_TO_CLOSE", "STC",
     "SELL_TO_OPEN", "STO", "BUY_TO_CLOSE", "BTC", "BUY", "SELL", "DIV", " "}

RECURSIVE SeqsUpTo(_, _)
SeqsUpTo(S, n) ==
    IF n = 0 THEN {<< >>}
    ELSE LET shorter == SeqsUpTo(S, n - 1)
         IN  shorter \cup {Append(s, t) : s \in {x \in shorter : Len(x) = n - 1}, t \in S}

RawCells == SeqsUpTo(Tokens, MaxRawLen)

toUpperCase(s) ==
    [i \in 1 .. Len(s) |->
        CASE s[i] = "bto" -> "BTO"
          [] s[i] = "cancel_" -> "CANCEL_"
          [] OTHER -> s[i]]

RECURSIVE trimStart(_)
trimStart(s) == IF s # << >> /\ s[1] = " " THEN trimStart(Tail(s)) ELSE s

RECURSIVE trimEnd(_)
trimEnd(s) ==
    IF s # << >> /\ s[Len(s)] = " " THEN trimEnd(SubSeq(s, 1, Len(s) - 1)) ELSE s

trim(s) == trimEnd(trimStart(s))

includes(s, word) ==
    \E i \in 1 .. Len(s) :
        \/ word = "BUY" /\ s[i] \in {"BUY", "BUY_TO_OPEN", "BUY_TO_CLOSE"}
        \/ word = "SELL" /\ s[i] \in {"SELL", "SELL_TO_CLOSE", "SELL_TO_OPEN"}

invertEffect(effect) ==
    CASE effect = "BTO" -> "STC"
      [] effect = "STC" -> "BTO"
      [] effect = "STO" -> "BTC"
      [] effect = "BTC" -> "STO"
      [] effect = "BUY" -> "SELL"
      [] effect = "SELL" -> "BUY"

\* the effect of the cell with any leading CANCEL_ taken off
baseEffect(base) ==
    IF base = <<"BUY_TO_OPEN">> \/ base = <<"BTO">> THEN "BTO"
    ELSE IF base = <<"SELL_TO_CLOSE">> \/ base = <<"STC">> THEN "STC"
    ELSE IF base = <<"SELL_TO_OPEN">> \/ base = <<"STO">> THEN "STO"
    ELSE IF base = <<"BUY_TO_CLOSE">> \/ base = <<"BTC">> THEN "BTC"
    ELSE IF includes(base, "BUY") THEN "BUY"
    ELSE IF includes(base, "SELL") THEN "SELL"
    ELSE "null"

\* variant of inferTradeEffect that takes the CANCEL_ prefix off and does
\* not invert
inferTradeEffectNoInvert(cell) ==
    LET value == toUpperCase(trim(cell))
        invert == value # << >> /\ value[1] = "CANCEL_"
        base == IF invert THEN Tail(value) ELSE value
    IN  IF value = << >> THEN "null" ELSE baseEffect(base)

inferTradeEffect(cell) ==
    LET value == toUpperCase(trim(cell))
        invert == value # << >> /\ value[1] = "CANCEL_"
        base == IF invert THEN Tail(value) ELSE value
        effect == baseEffect(base)
    IN  IF value = << >> THEN "null"
        ELSE IF effect = "null" THEN "null"
        ELSE IF ~invert THEN effect
        ELSE invertEffect(effect)

inferAction(cell) ==
    LET effect == inferTradeEffect(cell)
    IN  IF effect = "null" THEN "null"
        ELSE IF effect \in {"BTO", "BTC", "BUY"} THEN "BUY"
        ELSE "SELL"

\* toEvent returns null: the row is not a usable trade
NoEvent == [effect |-> "null"]

\* toEvent of the Public CSV importer, from the row's Trade Date, Trade
\* Action, Qty, Price and Symbol
toEvent(row) ==
    LET effect == inferTradeEffect(row.tradeAction)
        action == inferAction(row.tradeAction)
    IN  IF effect = "null" THEN NoEvent
        ELSE IF action = "null" THEN NoEvent
        ELSE [date |-> row.date,
              action |-> action,
              effect |-> effect,
              tradeType |-> row.symbol.tradeType,
              ticker |-> row.symbol.ticker,
              contractKey |-> row.symbol.contractKey,
              qty |-> row.qty,
              price |-> row.price,
              multiplier |-> IF row.symbol.tradeType # "Stock" THEN 100 ELSE 1]

(***************************************************************************)
(* Public CSV importer: intent-based engine for options with an explicit   *)
(* effect, direction-based engine for everything else.                     *)
(***************************************************************************)
\* the PositionState literal of runImportPublicCsv
NewPositionCsv(e) ==
    [ticker |-> e.ticker,
     contractKey |-> e.contractKey,
     openQty |-> 0,
     avgOpenPrice |-> R(0),
     totalOpenedQty |-> 0,
     totalOpenedNotional |-> 0,
     totalClosedQty |-> 0,
     totalClosedNotional |-> 0,
     realizedPl |-> R(0),
     openDate |-> NoDate,
     closeDate |-> NoDate]

\* effect BTO
BuyToOpen(p, e) ==
    LET newQty == p.openQty + e.qty
    IN  [p EXCEPT
            !.avgOpenPrice = WeightedAvg(p.openQty, p.avgOpenPrice, e.qty, e.price, newQty),
            !.openQty = newQty,
            !.totalOpenedQty = @ + e.qty,
            !.totalOpenedNotional = @ + e.qty * e.price,
            !.openDate = IF p.openDate = NoDate THEN e.date ELSE @]

\* variant of STC: the quantity beyond the open long opens a short lot
SellToCloseFlips(p, e) ==
    LET closingQty == Min(e.qty, Max(0, p.openQty))
        closed ==
            [p EXCEPT
                !.realizedPl =
                    RAdd(@, RMul(RSub(R(e.price), p.avgOpenPrice), R(closingQty * e.multiplier))),
                !.totalClosedQty = @ + closingQty,
                !.totalClosedNotional = @ + closingQty * e.price,
                !.openQty = @ - closingQty]
        remainder == e.qty - closingQty
    IN  IF remainder > 0
        THEN [closed EXCEPT
                !.openQty = @ - remainder,
                !.avgOpenPrice = R(e.price),
                !.totalOpenedQty = @ + remainder,
                !.totalOpenedNotional = @ + remainder * e.price,
                !.openDate = e.date,
                !.closeDate = NoDate]
        ELSE IF closed.openQty = 0 THEN [closed EXCEPT !.closeDate = e.date] ELSE closed

\* effect STC
SellToClose(p, e) ==
    LET closingQty == Min(e.qty, Max(0, p.openQty))
        closed ==
            [p EXCEPT
                !.realizedPl =
                    RAdd(@, RMul(RSub(R(e.price), p.avgOpenPrice), R(closingQty * e.multiplier))),
                !.totalClosedQty = @ + closingQty,
                !.totalClosedNotional = @ + closingQty * e.price,
                !.openQty = @ - closingQty]
    IN  IF closingQty > 0
        THEN IF closed.openQty = 0 THEN [closed EXCEPT !.closeDate = e.date] ELSE closed
        ELSE p

\* effect STO
SellToOpen(p, e) ==
    LET shortQty == Abs(Min(0, p.openQty))
        newQty == shortQty + e.qty
    IN  [p EXCEPT
            !.avgOpenPrice = WeightedAvg(shortQty, p.avgOpenPrice, e.qty, e.price, newQty),
            !.openQty = -newQty,
            !.totalOpenedQty = @ + e.qty,
            !.totalOpenedNotional = @ + e.qty * e.price,
            !.openDate = IF p.openDate = NoDate THEN e.date ELSE @]

\* effect BTC
BuyToClose(p, e) ==
    LET shortQty == Abs(Min(0, p.openQty))
        closingQty == Min(e.qty, shortQty)
        closed ==
            [p EXCEPT
                !.realizedPl =
                    RAdd(@, RMul(RSub(p.avgOpenPrice, R(e.price)), R(closingQty * e.multiplier))),
                !.totalClosedQty = @ + closingQty,
                !.totalClosedNotional = @ + closingQty * e.price,
                !.openQty = @ + closingQty]
    IN  IF closingQty > 0
        THEN IF closed.openQty = 0 THEN [closed EXCEPT !.closeDate = e.date] ELSE closed
        ELSE p

\* action BUY while flat or long
BuyAddsLongCsv(p, e) ==
    LET newQty == p.openQty + e.qty
    IN  [p EXCEPT
            !.avgOpenPrice = WeightedAvg(p.openQty, p.avgOpenPrice, e.qty, e.price, newQty),
            !.openQty = newQty,
            !.totalOpenedQty = @ + e.qty,
            !.totalOpenedNotional = @ + e.qty * e.price,
            !.openDate = IF p.openDate = NoDate THEN e.date ELSE @]

\* action BUY while short
BuyCoversShortCsv(p, e) ==
    LET shortQty == Abs(p.openQty)
        closingQty == Min(e.qty, shortQty)
        covered ==
            [p EXCEPT
                !.realizedPl =
                    RAdd(@, RMul(RSub(p.avgOpenPrice, R(e.price)), R(closingQty * e.multiplier))),
                !.totalClosedQty = @ + closingQty,
                !.totalClosedNotional = @ + closingQty * e.price,
                !.openQty = @ + closingQty]
        flat == IF covered.openQty = 0 THEN [covered EXCEPT !.closeDate = e.date] ELSE covered
        remainder == e.qty - closingQty
    IN  IF remainder > 0
        THEN [flat EXCEPT
                !.openQty = remainder,
                !.avgOpenPrice = R(e.price),
                !.totalOpenedQty = @ + remainder,
                !.totalOpenedNotional = @ + remainder * e.price,
                !.openDate = e.date,
                !.closeDate = NoDate]
        ELSE flat

\* action SELL while flat or short
SellAddsShortCsv(p, e) ==
    LET shortQty == Abs(p.openQty)
        newQty == shortQty + e.qty
    IN  [p EXCEPT
            !.avgOpenPrice = WeightedAvg(shortQty, p.avgOpenPrice, e.qty, e.price, newQty),
            !.openQty = -newQty,
            !.totalOpenedQty = @ + e.qty,
            !.totalOpenedNotional = @ + e.qty * e.price,
            !.openDate = IF p.openDate = NoDate THEN e.date ELSE @]

\* action SELL while long
SellClosesLongCsv(p, e) ==
    LET closingQty == Min(e.qty, p.openQty)
        closed ==
            [p EXCEPT
                !.realizedPl =
                    RAdd(@, RMul(RSub(R(e.price), p.avgOpenPrice), R(closingQty * e.multiplier))),
                !.totalClosedQty = @ + closingQty,
                !.totalClosedNotional = @ + closingQty * e.price,
                !.openQty = @ - closingQty]
        flat == IF closed.openQty = 0 THEN [closed EXCEPT !.closeDate = e.date] ELSE closed
        remainder == e.qty - closingQty
    IN  IF remainder > 0
        THEN [flat EXCEPT
                !.openQty = -remainder,
                !.avgOpenPrice = R(e.price),
                !.totalOpenedQty = @ + remainder,
                !.totalOpenedNotional = @ + remainder * e.price,
                !.openDate = e.date,
                !.closeDate = NoDate]
        ELSE flat

\* the event is handled by intent: an option with one of the four effects
ByIntent(e) == e.tradeType # "Stock" /\ e.effect \in {"BTO", "STC", "STO", "BTC"}

upsertPositionFromEvent(p, e) ==
    IF ByIntent(e)
    THEN CASE e.effect = "BTO" -> BuyToOpen(p, e)
           [] e.effect = "STC" -> SellToClose(p, e)
           [] e.effect = "STO" -> SellToOpen(p, e)
           [] e.effect = "BTC" -> BuyToClose(p, e)
    ELSE IF e.action = "BUY"
         THEN IF p.openQty >= 0 THEN BuyAddsLongCsv(p, e) ELSE BuyCoversShortCsv(p, e)
         ELSE IF p.openQty <= 0 THEN SellAddsShortCsv(p, e) ELSE SellClosesLongCsv(p, e)

(***************************************************************************)
(* runImportPublicCsv: the event loop and the row creation loop.           *)
(***************************************************************************)
CsvFills == {<<4, 8>>, <<6, 9>>}

\* Trade Action cells of the rows the importer is fed
CsvTradeActions ==
    {<<"BTO">>, <<"STC">>, <<"STO">>, <<"BTC">>, <<"BUY">>, <<"SELL">>,
     <<"CANCEL_", "BTO">>, <<"DIV">>}

PublicCsvRows ==
    { [date |-> d, tradeAction |-> a, qty |-> f[1], price |-> f[2], symbol |-> contract] :
        d \in CsvDates, a \in CsvTradeActions, f \in CsvFills }

\* PUBLIC_CSV_CLOSE_CUTOFF_DATE, the expiry in the option's contract key and
\* the day of the run: all after the last trade date
OptionExpiry == MaxDate + 1

\* PUBLIC_CSV_CLOSE_CUTOFF_DATE, or its default, which lies after every date
\* of the rows
CloseCutoffDate == IF "closeCutoff" \in DOMAIN env THEN env.closeCutoff ELSE MaxDate + 2

Today == MaxDate + 3

\* optionExpiryDate(contractKey): NoDate for a key that is not an OCC option key
optionExpiryDate(contractKey) ==
    IF IsOccOptionKey(contractKey) THEN OptionExpiry ELSE NoDate

\* a non-archived page of broker "Public" for the followed contract
ExistingPublicPage ==
    [ticker |-> contract.ticker,
     contractKey |-> contract.contractKey,
     status |-> "OPEN",
     qty |-> R(4),
     fillPrice |-> R(8 * contract.multiplier),
     side |-> "null",
     tradeType |-> contract.tradeType,
     tradeDate |-> 1,
     lastAddDate |-> NoDate,
     broker |-> "Public",
     account |-> "Brokerage Account",
     strategy |-> "null",
     tags |-> << >>,
     closeDate |-> NoDate,
     closePrice |-> NullNumber,
     plAtClose |-> NullNumber,
     archived |-> FALSE]

\* fetchTradeSnapshotsByBrokers(["Public"])
fetchTradeSnapshotsByBrokers(brokers) ==
    { ledger[i] : i \in { j \in 1 .. Len(ledger) :
        ~ledger[j].archived /\ ledger[j].broker \in brokers /\ ledger[j].tradeDate # NoDate } }

buildSignature(contractKey, ticker, tradeDate, qty, fillPrice) ==
    <<contractKey, ticker, tradeDate, round2(qty), round2(fillPrice)>>

PublicCsvSkips(p) == p.totalOpenedQty <= 0 \/ p.openDate = NoDate

\* lifetime average entry price, scaled for display
CsvFillPrice(p) ==
    LET avgOpenPrice ==
            IF p.totalOpenedQty > 0
            THEN RDiv(R(p.totalOpenedNotional), R(p.totalOpenedQty))
            ELSE R(0)
        multiplier == IF IsOccOptionKey(p.contractKey) THEN 100 ELSE 1
    IN  round2(RMul(avgOpenPrice, R(multiplier)))

\* the contract key or the signature is already there from the live API
IsSnaptradeDuplicate(p) ==
    LET snaptradeRows == fetchTradeSnapshotsByBrokers({"Public"})
        snaptradeContractKeys == { r.contractKey : r \in snaptradeRows } \ {""}
        snaptradeSignatures ==
            { buildSignature(IF r.contractKey # "" THEN r.contractKey ELSE r.ticker,
                             r.ticker, r.tradeDate, r.qty, r.fillPrice) : r \in snaptradeRows }
        signature ==
            buildSignature(IF p.contractKey # "" THEN p.contractKey ELSE p.ticker,
                           p.ticker, p.openDate, round2(R(p.totalOpenedQty)), CsvFillPrice(p))
    IN  \/ p.contractKey # "" /\ p.contractKey \in snaptradeContractKeys
        \/ signature \in snaptradeSignatures

CsvIsClosed(p) == p.openQty = 0 /\ p.closeDate # NoDate

shouldAutoExpireAtZero(p) ==
    /\ p.openQty # 0
    /\ IsOccOptionKey(p.contractKey)
    /\ optionExpiryDate(p.contractKey) # NoDate
    /\ optionExpiryDate(p.contractKey) <= Today

resolvedCloseDate(p) ==
    IF CsvIsClosed(p) THEN p.closeDate
    ELSE IF shouldAutoExpireAtZero(p) THEN optionExpiryDate(p.contractKey)
    ELSE NoDate

\* an importer without the cutoff test
SkippedByCloseCutoffNever(p) == FALSE

SkippedByCloseCutoff(p) ==
    resolvedCloseDate(p) = NoDate \/ resolvedCloseDate(p) > CloseCutoffDate

\* the page one position leaves in the store
PublicCsvPage(p) ==
    LET avgClosePrice ==
            IF p.totalClosedQty > 0
            THEN RDiv(R(p.totalClosedNotional), R(p.totalClosedQty))
            ELSE NullNumber
        isOption == IsOccOptionKey(p.contractKey)
        multiplier == IF isOption THEN 100 ELSE 1
        tradeType == IF isOption THEN "Call" ELSE "Stock"
        fillPrice == CsvFillPrice(p)
        manual == getManual(manualIndex, EventAccount, p.contractKey, p.openDate)
        page ==
            createPositionPage(
                [ticker |-> p.ticker,
                 contractKey |-> p.contractKey,
                 qty |-> round2(R(p.totalOpenedQty)),
                 avgPrice |-> fillPrice,
                 side |-> "null",
                 tradeType |-> tradeType,
                 openDate |-> p.openDate,
                 lastAddDate |-> NoDate,
                 broker |-> "Public (CSV)",
                 account |-> EventAccount,
                 strategy |-> strategyOrUndefined(manual),
                 tags |-> manual.tags])
        remainingQty == Abs(p.openQty)
        autoExpiredRealizedPl ==
            RAdd(p.realizedPl,
                 IF p.openQty > 0
                 THEN RMul(RSub(R(0), p.avgOpenPrice), R(remainingQty * multiplier))
                 ELSE RMul(RSub(p.avgOpenPrice, R(0)), R(remainingQty * multiplier)))
    IN  IF CsvIsClosed(p)
        THEN updatePositionPage(page,
                [ticker |-> p.ticker,
                 contractKey |-> p.contractKey,
                 qty |-> round2(R(p.totalOpenedQty)),
                 avgPrice |-> fillPrice,
                 side |-> "null",
                 tradeType |-> tradeType,
                 status |-> "CLOSED",
                 lastAddDate |-> NoDate,
                 closeDate |-> p.closeDate,
                 closePrice |->
                    IF avgClosePrice = NullNumber THEN NullNumber
                    ELSE round2(RMul(avgClosePrice, R(multiplier))),
                 realizedPl |-> round2(p.realizedPl)])
        ELSE IF shouldAutoExpireAtZero(p)
        THEN updatePositionPage(page,
                [ticker |-> p.ticker,
                 contractKey |-> p.contractKey,
                 qty |-> round2(R(p.totalOpenedQty)),
                 avgPrice |-> fillPrice,
                 side |-> "null",
                 tradeType |-> tradeType,
                 status |-> "CLOSED",
                 lastAddDate |-> NoDate,
                 closeDate |-> optionExpiryDate(p.contractKey),
                 closePrice |-> R(0),
                 realizedPl |-> round2(autoExpiredRealizedPl)])
        ELSE page

PublicCsvInit ==
    /\ importer = "import-public-csv"
    /\ pc = "events"
    /\ contract \in Contracts
    /\ events = << >>
    /\ positions = EmptyMap
    /\ ledger \in {<< >>, <<ExistingPublicPage>>}
    /\ raw = << >>
    /\ parsed = << >>
    /\ manualIndex = EmptyMap
    /\ env = DefaultEnv
    /\ calls = << >>

\* one iteration of `for (const e of events)`; rows that toEvent rejects
\* never reach the events array
PublicCsvApplyEvent ==
    /\ FirstRun
    /\ importer = "import-public-csv"
    /\ pc = "events"
    /\ Len(events) < MaxEvents
    /\ \E row \in PublicCsvRows :
        LET e == toEvent(row)
        IN  /\ e # NoEvent
            /\ CanFollow(e)
            /\ LET key == StateKey(e)
                   p == IF key \in DOMAIN positions THEN positions[key]
                        ELSE NewPositionCsv(e)
               IN  positions' = MapSet(positions, key, upsertPositionFromEvent(p, e))
            /\ events' = Append(events, e)
    /\ UNCHANGED <<importer, pc, contract, ledger>>
    /\ UNCHANGED parseVars
    /\ UNCHANGED runVars

\* `for (const p of positions.values())` once the events are exhausted
PublicCsvCreateRows ==
    /\ SourceExhausted
    /\ importer = "import-public-csv"
    /\ pc = "events"
    /\ pc' = "done"
    /\ ledger' =
        IF \E k \in DOMAIN positions :
            /\ ~PublicCsvSkips(positions[k])
            /\ ~IsSnaptradeDuplicate(positions[k])
            /\ ~SkippedByCloseCutoff(positions[k])
        THEN Append(ledger, PublicCsvPage(positions[StateKey(contract)]))
        ELSE ledger
    /\ UNCHANGED <<importer, contract, events, positions>>
    /\ UNCHANGED parseVars
    /\ UNCHANGED runVars

PublicCsvNext == PublicCsvApplyEvent \/ PublicCsvCreateRows

SpecPublicCsv == PublicCsvInit /\ [][PublicCsvNext]_vars

(***************************************************************************)
(* runImportFidelityCsvHistory: long-only engine, inlined in the event     *)
(* loop, and the row creation loop.                                        *)
(***************************************************************************)
\* Fidelity writes an option symbol compactly, with a leading dash
FidelityCallContract ==
    [ticker |-> "AAPL", contractKey |-> "AAPL250117C200", tradeType |-> "Call",
     multiplier |-> 100]

FidelityContracts == {StockContract, FidelityCallContract}

\* /^\w+\d{6}[CP]/ on the contract keys of the model
IsFidelityOptionKey(contractKey) == contractKey = FidelityCallContract.contractKey

\* inferTradeType: an option row whose text spells neither CALL nor PUT has
\* no trade type
inferTradeType(symbol, spellsType) ==
    IF symbol.tradeType = "Stock" THEN "Stock"
    ELSE IF spellsType THEN symbol.tradeType
    ELSE "null"

\* eventFromRow, from the row's Run Date, Action, Description, Symbol,
\* Quantity and Price
eventFromRow(row) ==
    [date |-> row.date,
     broker |-> "Fidelity (CSV)",
     action |-> row.action,
     tradeType |-> inferTradeType(row.symbol, row.spellsType),
     contractKey |-> row.symbol.contractKey,
     ticker |-> row.symbol.ticker,
     qty |-> row.qty,
     price |-> row.price,
     multiplier |-> IF row.symbol.tradeType # "Stock" THEN 100 ELSE 1]

FidelityRows ==
    { [date |-> d, action |-> a, qty |-> f[1], price |-> f[2], symbol |-> contract,
       spellsType |-> t] :
        d \in CsvDates, a \in {"BUY", "SELL"}, f \in CsvFills,
        t \in IF contract.tradeType = "Stock" THEN {FALSE} ELSE BOOLEAN }

\* key of eventMap: date|account|action|symbol|qty|price
FidelityEventKey(e) == <<e.date, e.action, e.contractKey, e.qty, e.price>>

\* the PositionState literal of runImportFidelityCsvHistory
NewPositionFidelity(e) ==
    [broker |-> e.broker,
     contractKey |-> e.contractKey,
     ticker |-> e.ticker,
     tradeType |-> e.tradeType,
     qtyOpen |-> 0,
     totalBoughtQty |-> 0,
     avgPrice |-> R(0),
     totalSoldQty |-> 0,
     totalSoldPrice |-> 0,
     realizedPl |-> R(0),
     openDate |-> NoDate,
     closeDate |-> NoDate]

\* if (!p.tradeType && e.tradeType) p.tradeType = e.tradeType
FillTradeType(p, e) ==
    IF p.tradeType = "null" /\ e.tradeType # "null"
    THEN [p EXCEPT !.tradeType = e.tradeType]
    ELSE p

FidelityBuy(p, e) ==
    LET newQty == p.qtyOpen + e.qty
    IN  [p EXCEPT
            !.avgPrice = WeightedAvg(p.qtyOpen, p.avgPrice, e.qty, e.price, newQty),
            !.qtyOpen = newQty,
            !.totalBoughtQty = @ + e.qty,
            !.openDate = IF p.openDate = NoDate THEN e.date ELSE @]

\* variant of the SELL branch without `if (p.qtyOpen <= 0) continue`
FidelitySellUnguarded(p, e) ==
    LET closingQty == Min(p.qtyOpen, e.qty)
        closed ==
            [p EXCEPT
                !.realizedPl =
                    RAdd(@, RMul(RSub(R(e.price), p.avgPrice), R(closingQty * e.multiplier))),
                !.totalSoldQty = @ + closingQty,
                !.totalSoldPrice = @ + e.price * closingQty,
                !.qtyOpen = @ - closingQty]
    IN  IF closed.qtyOpen = 0 THEN [closed EXCEPT !.closeDate = e.date] ELSE closed

\* the SELL branch of the loop body
FidelitySell(p, e) ==
    IF p.qtyOpen <= 0 THEN p
    ELSE LET closingQty == Min(p.qtyOpen, e.qty)
             closed ==
                [p EXCEPT
                    !.realizedPl =
                        RAdd(@, RMul(RSub(R(e.price), p.avgPrice), R(closingQty * e.multiplier))),
                    !.totalSoldQty = @ + closingQty,
                    !.totalSoldPrice = @ + e.price * closingQty,
                    !.qtyOpen = @ - closingQty]
         IN  IF closed.qtyOpen = 0 THEN [closed EXCEPT !.closeDate = e.date] ELSE closed

\* body of `for (const e of events)` after the position is looked up
FidelityLoopBody(p, e) ==
    LET typed == FillTradeType(p, e)
    IN  IF e.action = "BUY" THEN FidelityBuy(typed, e) ELSE FidelitySell(typed, e)

\* variant of the skip test that lets every position through
FidelitySkipsNever(p) == p.totalBoughtQty < 0

\* if (p.totalBoughtQty <= 0 || !p.openDate) continue
FidelitySkips(p) == p.totalBoughtQty <= 0 \/ p.openDate = NoDate

FidelityIsClosed(p) == p.qtyOpen = 0 /\ p.closeDate # NoDate

\* the page one position leaves in the store
FidelityPage(p) ==
    LET multiplier == IF IsFidelityOptionKey(p.contractKey) THEN 100 ELSE 1
        manual == getManual(manualIndex, EventAccount, p.contractKey, p.openDate)
        page ==
            createPositionPage(
                [ticker |-> p.ticker,
                 contractKey |-> p.contractKey,
                 qty |-> R(p.totalBoughtQty),
                 avgPrice |-> round2(RMul(p.avgPrice, R(multiplier))),
                 side |-> "null",
                 tradeType |-> p.tradeType,
                 openDate |-> p.openDate,
                 lastAddDate |-> NoDate,
                 broker |-> p.broker,
                 account |-> EventAccount,
                 strategy |-> strategyOrUndefined(manual),
                 tags |-> manual.tags])
        avgClose ==
            IF p.totalSoldQty > 0
            THEN round2(RMul(RDiv(R(p.totalSoldPrice), R(p.totalSoldQty)), R(multiplier)))
            ELSE NullNumber
    IN  IF FidelityIsClosed(p)
        THEN updatePositionPage(page,
                [ticker |-> p.ticker,
                 contractKey |-> p.contractKey,
                 qty |-> R(p.totalBoughtQty),
                 avgPrice |-> round2(RMul(p.avgPrice, R(multiplier))),
                 side |-> "null",
                 tradeType |-> p.tradeType,
                 status |-> "CLOSED",
                 lastAddDate |-> NoDate,
                 closeDate |-> p.closeDate,
                 closePrice |-> avgClose,
                 realizedPl |-> round2(p.realizedPl)])
        ELSE page

FidelityInit ==
    /\ importer = "import-fidelity-csv-history"
    /\ pc = "events"
    /\ contract \in FidelityContracts
    /\ events = << >>
    /\ positions = EmptyMap
    /\ ledger = << >>
    /\ raw = << >>
    /\ parsed = << >>
    /\ manualIndex = EmptyMap
    /\ env = DefaultEnv
    /\ calls = << >>

\* one iteration of `for (const e of events)`; eventMap holds one event per key
FidelityApplyEvent ==
    /\ FirstRun
    /\ importer = "import-fidelity-csv-history"
    /\ pc = "events"
    /\ Len(events) < MaxEvents
    /\ \E row \in FidelityRows :
        LET e == eventFromRow(row)
        IN  /\ CanFollow(e)
            /\ \A i \in 1 .. Len(events) : FidelityEventKey(events[i]) # FidelityEventKey(e)
            /\ LET key == StateKey(e)
                   p == IF key \in DOMAIN positions THEN positions[key]
                        ELSE NewPositionFidelity(e)
               IN  positions' = MapSet(positions, key, FidelityLoopBody(p, e))
            /\ events' = Append(events, e)
    /\ UNCHANGED <<importer, pc, contract, ledger>>
    /\ UNCHANGED parseVars
    /\ UNCHANGED runVars

\* `for (const p of positions.values())` once the events are exhausted
FidelityCreateRows ==
    /\ SourceExhausted
    /\ importer = "import-fidelity-csv-history"
    /\ pc = "events"
    /\ pc' = "done"
    /\ ledger' =
        IF \E k \in DOMAIN positions : ~FidelitySkips(positions[k])
        THEN Append(ledger, FidelityPage(positions[StateKey(contract)]))
        ELSE ledger
    /\ UNCHANGED <<importer, contract, events, positions>>
    /\ UNCHANGED parseVars
    /\ UNCHANGED runVars

FidelityNext == FidelityApplyEvent \/ FidelityCreateRows

SpecFidelityCsv == FidelityInit /\ [][FidelityNext]_vars

(***************************************************************************)
(* runReconcileFidelityCsv: the position states buildCsvStateMap derives   *)
(* from the Fidelity CSV events, sorted by date only.                      *)
(***************************************************************************)
\* eventFromRow of the reconcile command, from the row's Run Date, Action,
\* Symbol, Quantity and Price
eventFromCsvRow(row) ==
    [date |-> row.date,
     action |-> row.action,
     contractKey |-> row.symbol.contractKey,
     qty |-> row.qty,
     price |-> row.price,
     multiplier |-> IF row.symbol.tradeType # "Stock" THEN 100 ELSE 1]

ReconcileRows ==
    { [date |-> d, action |-> a, qty |-> f[1], price |-> f[2], symbol |-> contract] :
        d \in CsvDates, a \in {"BUY", "SELL"}, f \in CsvFills }

\* the PositionState literal of buildCsvStateMap
NewCsvState ==
    [qtyOpen |-> 0,
     totalBoughtQty |-> 0,
     avgPrice |-> R(0),
     totalSoldQty |-> 0,
     totalSoldPrice |-> 0,
     realizedPl |-> R(0),
     closeDate |-> NoDate]

CsvStateBuy(p, e) ==
    LET newQty == p.qtyOpen + e.qty
    IN  [p EXCEPT
            !.avgPrice = WeightedAvg(p.qtyOpen, p.avgPrice, e.qty, e.price, newQty),
            !.qtyOpen = newQty,
            !.totalBoughtQty = @ + e.qty]

CsvStateSell(p, e) ==
    IF p.qtyOpen <= 0 THEN p
    ELSE LET closingQty == Min(p.qtyOpen, e.qty)
             closed ==
                [p EXCEPT
                    !.realizedPl =
                        RAdd(@, RMul(RSub(R(e.price), p.avgPrice), R(closingQty * e.multiplier))),
                    !.totalSoldQty = @ + closingQty,
                    !.totalSoldPrice = @ + e.price * closingQty,
                    !.qtyOpen = @ - closingQty]
         IN  IF closed.qtyOpen = 0 THEN [closed EXCEPT !.closeDate = e.date] ELSE closed

ReconcileInit ==
    /\ importer = "reconcile-fidelity-csv"
    /\ pc = "events"
    /\ contract \in FidelityContracts
    /\ events = << >>
    /\ positions = EmptyMap
    /\ ledger = << >>
    /\ raw = << >>
    /\ parsed = << >>
    /\ manualIndex = EmptyMap
    /\ env = DefaultEnv
    /\ calls = << >>

\* one iteration of `for (const e of events)` in buildCsvStateMap, the
\* events sorted by events.sort((a, b) => a.date.localeCompare(b.date))
buildCsvStateMap ==
    /\ importer = "reconcile-fidelity-csv"
    /\ pc = "events"
    /\ Len(events) < MaxEvents
    /\ \E row \in ReconcileRows :
        LET e == eventFromCsvRow(row)
        IN  /\ IF events = << >> THEN TRUE ELSE e.date >= Last(events).date
            /\ LET key == StateKey(e)
                   p == IF key \in DOMAIN positions THEN positions[key] ELSE NewCsvState
               IN  positions' =
                     MapSet(positions, key,
                            IF e.action = "BUY" THEN CsvStateBuy(p, e) ELSE CsvStateSell(p, e))
            /\ events' = Append(events, e)
    /\ UNCHANGED <<importer, pc, contract, ledger>>
    /\ UNCHANGED parseVars
    /\ UNCHANGED runVars

\* `return map` once the events are exhausted
CsvStateBuilt ==
    /\ importer = "reconcile-fidelity-csv"
    /\ pc = "events"
    /\ pc' = "built"
    /\ UNCHANGED <<importer, contract, events, positions, ledger>>
    /\ UNCHANGED parseVars
    /\ UNCHANGED runVars

ReconcileNext == buildCsvStateMap \/ CsvStateBuilt

(***************************************************************************)
(* The file importers together: one of them runs.                          *)
(***************************************************************************)
ImportersInit == RobinhoodInit \/ PublicCsvInit \/ FidelityInit \/ ReconcileInit

ImportersNext == RobinhoodNext \/ PublicCsvNext \/ FidelityNext \/ ReconcileNext

SpecImporters == ImportersInit /\ [][ImportersNext]_vars

(***************************************************************************)
(* Public API importer and the SnapTrade rebuild: both keep a long-only    *)
(* position per contract and write to the store while they read activity.  *)
(***************************************************************************)
ApiImporters == {"import-public-api", "rebuild-positions"}

ApiFills == {<<4, 8>>, <<6, 9>>}

\* SNAPTRADE_START_DATE of runRebuildPositions
SnaptradeStartDate == MaxDate - 1

\* an order as getAccountOrders returns it; type is normalizeSide(activity.type)
ApiActivities ==
    { [date |-> d, action |-> a, qty |-> f[1], price |-> f[2],
       ticker |-> contract.ticker, contractKey |-> contract.contractKey] :
        d \in Dates, a \in {"BUY", "SELL", "DIVIDEND"}, f \in ApiFills }

\* [...activities].sort((a, b) => aTime - bTime)
ApiCanFollow(a) == IF events = << >> THEN TRUE ELSE a.date >= Last(events).date

MapRemove(map, k) == [x \in DOMAIN map \ {k} |-> map[x]]

ApiBroker == IF importer = "import-public-api" THEN "Public" ELSE "PUBLIC"

\* BUY with no position in the map: a new row and a new position
ApiBuyCreates(a, multiplier) ==
    /\ ledger' =
        Append(ledger,
            createPositionPage(
                [ticker |-> a.ticker,
                 contractKey |-> a.contractKey,
                 qty |-> R(a.qty),
                 avgPrice |-> R(a.price * multiplier),
                 side |-> "null",
                 tradeType |-> "null",
                 openDate |-> a.date,
                 lastAddDate |-> NoDate,
                 broker |-> ApiBroker,
                 account |-> EventAccount,
                 strategy |->
                    IF importer = "import-public-api"
                    THEN strategyOrUndefined(
                            lookupManualStrategyTags(manualIndex, EventAccount,
                                                     a.contractKey, a.date))
                    ELSE "undefined",
                 tags |->
                    IF importer = "import-public-api"
                    THEN lookupManualStrategyTags(manualIndex, EventAccount,
                                                  a.contractKey, a.date).tags
                    ELSE << >>]))
    /\ positions' =
        MapSet(positions, a.contractKey,
            [pageId |-> Len(ledger) + 1,
             openDate |-> a.date,
             qty |-> a.qty,
             totalBought |-> a.qty,
             avgPrice |-> R(a.price),
             realizedPl |-> R(0),
             lastAddDate |-> NoDate])

\* BUY on a held position: weighted average, row stays OPEN
ApiBuyAdds(position, a, multiplier) ==
    LET newQty == position.qty + a.qty
        newAvg ==
            IF newQty > 0
            THEN RDiv(RAdd(RMul(R(position.qty), position.avgPrice), R(a.qty * a.price)),
                      R(newQty))
            ELSE R(0)
        lastAddDate ==
            IF importer = "import-public-api" /\ position.openDate # NoDate
               /\ a.date # position.openDate
            THEN a.date
            ELSE position.lastAddDate
        next ==
            [position EXCEPT
                !.qty = newQty,
                !.totalBought = position.totalBought + a.qty,
                !.avgPrice = newAvg,
                !.lastAddDate = lastAddDate]
    IN  /\ positions' = MapSet(positions, a.contractKey, next)
        /\ ledger' =
            [ledger EXCEPT ![position.pageId] =
                updatePositionPage(@,
                    [ticker |-> a.ticker,
                     contractKey |-> a.contractKey,
                     qty |-> R(next.totalBought),
                     avgPrice |-> RMul(next.avgPrice, R(multiplier)),
                     side |-> "null",
                     tradeType |-> "null",
                     status |-> "OPEN",
                     lastAddDate |-> next.lastAddDate])]

\* realized P/L of a SELL, on the whole sold quantity
ApiRealized(position, a, multiplier) ==
    RMul(RSub(R(a.price), position.avgPrice), R(a.qty * multiplier))

\* variant that keeps the closed position in the map
ApiSellKeepsPosition(position, a, multiplier) ==
    LET next ==
            [position EXCEPT
                !.realizedPl = RAdd(@, ApiRealized(position, a, multiplier)),
                !.qty = Max(0, position.qty - a.qty)]
        closed ==
            updatePositionPage(ledger[position.pageId],
                [ticker |-> a.ticker,
                 contractKey |-> a.contractKey,
                 qty |-> R(next.totalBought),
                 avgPrice |-> RMul(next.avgPrice, R(multiplier)),
                 side |-> "null",
                 tradeType |-> "null",
                 status |-> "CLOSED",
                 lastAddDate |-> NoDate,
                 closeDate |-> a.date,
                 closePrice |-> R(a.price * multiplier),
                 realizedPl |-> round2(next.realizedPl)])
        shouldKeep ==
            importer = "import-public-api" \/ a.date >= SnaptradeStartDate
        stillOpen ==
            updatePositionPage(ledger[position.pageId],
                [ticker |-> a.ticker,
                 contractKey |-> a.contractKey,
                 qty |-> R(next.totalBought),
                 avgPrice |-> RMul(next.avgPrice, R(multiplier)),
                 side |-> "null",
                 tradeType |-> "null",
                 status |-> "OPEN",
                 lastAddDate |-> next.lastAddDate])
    IN  IF next.qty = 0
        THEN /\ ledger' =
                [ledger EXCEPT ![position.pageId] =
                    IF shouldKeep THEN closed ELSE [closed EXCEPT !.archived = TRUE]]
             /\ positions' = MapSet(positions, a.contractKey, next)
        ELSE /\ ledger' = [ledger EXCEPT ![position.pageId] = stillOpen]
             /\ positions' = MapSet(positions, a.contractKey, next)

\* SELL on a held position: realize, reduce, close the row at zero
ApiSell(position, a, multiplier) ==
    LET next ==
            [position EXCEPT
                !.realizedPl = RAdd(@, ApiRealized(position, a, multiplier)),
                !.qty = Max(0, position.qty - a.qty)]
        closed ==
            updatePositionPage(ledger[position.pageId],
                [ticker |-> a.ticker,
                 contractKey |-> a.contractKey,
                 qty |-> R(next.totalBought),
                 avgPrice |-> RMul(next.avgPrice, R(multiplier)),
                 side |-> "null",
                 tradeType |-> "null",
                 status |-> "CLOSED",
                 lastAddDate |-> NoDate,
                 closeDate |-> a.date,
                 closePrice |-> R(a.price * multiplier),
                 realizedPl |-> round2(next.realizedPl)])
        shouldKeep ==
            importer = "import-public-api" \/ a.date >= SnaptradeStartDate
        stillOpen ==
            updatePositionPage(ledger[position.pageId],
                [ticker |-> a.ticker,
                 contractKey |-> a.contractKey,
                 qty |-> R(next.totalBought),
                 avgPrice |-> RMul(next.avgPrice, R(multiplier)),
                 side |-> "null",
                 tradeType |-> "null",
                 status |-> "OPEN",
                 lastAddDate |-> next.lastAddDate])
    IN  IF next.qty = 0
        THEN /\ ledger' =
                [ledger EXCEPT ![position.pageId] =
                    IF shouldKeep THEN closed ELSE [closed EXCEPT !.archived = TRUE]]
             /\ positions' = MapRemove(positions, a.contractKey)
        ELSE /\ ledger' = [ledger EXCEPT ![position.pageId] = stillOpen]
             /\ positions' = MapSet(positions, a.contractKey, next)

\* /\d{6}[CP]\d{8}$/ on the contract key with its whitespace removed
isOptionContract(contractKey) == contractKey = CallContract.contractKey

\* the holdings getAccountPositions reports at the end of the import
ApiHoldings ==
    { {} } \cup
    { { [ticker |-> contract.ticker, symbol_key |-> contract.contractKey,
         units |-> u, average_purchase_price |-> 8] } : u \in {4, 6} }

\* what getAccountPositions answers in this run: any of the holdings, or
\* the holdings the environment fixes for every run
CurrentHoldings == IF "holdings" \in DOMAIN env THEN {env.holdings} ELSE ApiHoldings

ApiInit ==
    /\ importer \in ApiImporters
    /\ pc = "events"
    /\ contract \in Contracts
    /\ events = << >>
    /\ positions = EmptyMap
    /\ ledger = << >>
    /\ raw = << >>
    /\ parsed = << >>
    /\ manualIndex = EmptyMap
    /\ env = DefaultEnv
    /\ calls = << >>

\* one iteration of `for (const activity of sorted)`
ApiApplyActivity ==
    /\ FirstRun
    /\ importer \in ApiImporters
    /\ pc = "events"
    /\ Len(events) < MaxEvents
    /\ \E a \in ApiActivities :
        /\ ApiCanFollow(a)
        /\ events' = Append(events, a)
        /\ LET multiplier == IF isOptionContract(a.contractKey) THEN 100 ELSE 1
               held == a.contractKey \in DOMAIN positions
           IN  CASE a.action = "BUY" /\ ~held -> ApiBuyCreates(a, multiplier)
                 [] a.action = "BUY" /\ held ->
                        ApiBuyAdds(positions[a.contractKey], a, multiplier)
                 [] a.action = "SELL" /\ held ->
                        ApiSell(positions[a.contractKey], a, multiplier)
                 [] OTHER -> UNCHANGED <<positions, ledger>>
    /\ UNCHANGED <<importer, pc, contract>>
    /\ UNCHANGED parseVars
    /\ UNCHANGED runVars

\* `for (const p of currentPositions)` and the cleanup loop of runImportPublicApi
PublicApiEnsureOpen ==
    /\ SourceExhausted
    /\ importer = "import-public-api"
    /\ pc = "events"
    /\ pc' = "done"
    /\ \E currentPositions \in CurrentHoldings :
        IF currentPositions = {}
        THEN ledger' = ledger
        ELSE LET p == CHOOSE h \in currentPositions : TRUE
                 avgPrice == round2(R(p.average_purchase_price))
             IN  IF p.symbol_key \in DOMAIN positions
                 THEN ledger' =
                        [ledger EXCEPT ![positions[p.symbol_key].pageId] =
                            updatePositionPage(@,
                                [ticker |-> p.ticker,
                                 contractKey |-> p.symbol_key,
                                 qty |-> R(p.units),
                                 avgPrice |-> avgPrice,
                                 side |-> "null",
                                 tradeType |-> "null",
                                 status |-> "OPEN",
                                 lastAddDate |-> NoDate])]
                 ELSE ledger' =
                        Append(ledger,
                            createPositionPage(
                                [ticker |-> p.ticker,
                                 contractKey |-> p.symbol_key,
                                 qty |-> R(p.units),
                                 avgPrice |-> avgPrice,
                                 side |-> "null",
                                 tradeType |-> "null",
                                 openDate |-> NoDate,
                                 lastAddDate |-> NoDate,
                                 broker |-> "Public",
                                 account |-> EventAccount,
                                 strategy |->
                                    strategyOrUndefined(
                                        lookupManualStrategyTags(manualIndex, EventAccount,
                                                                 p.symbol_key, NoDate)),
                                 tags |->
                                    lookupManualStrategyTags(manualIndex, EventAccount,
                                                             p.symbol_key, NoDate).tags]))
    /\ UNCHANGED <<importer, contract, events, positions>>
    /\ UNCHANGED parseVars
    /\ UNCHANGED runVars

\* runRebuildPositions returns its counts once the activities are exhausted
RebuildReturn ==
    /\ SourceExhausted
    /\ importer = "rebuild-positions"
    /\ pc = "events"
    /\ pc' = "done"
    /\ UNCHANGED <<importer, contract, events, positions, ledger>>
    /\ UNCHANGED parseVars
    /\ UNCHANGED runVars

ApiNext == ApiApplyActivity \/ PublicApiEnsureOpen \/ RebuildReturn

SpecApi == ApiInit /\ [][ApiNext]_vars

\* the position one activity of this step was applied to, if it was held
ApiHeld == StateKey(contract) \in DOMAIN positions

CsvBefore ==
    IF HasPosition THEN positions[StateKey(contract)] ELSE NewPositionCsv(contract)

\* the event of this step is an option event with the given explicit effect
IntentStep(effect) ==
    /\ Stepped
    /\ importer = "import-public-csv"
    /\ ByIntent(Last(events'))
    /\ Last(events').effect = effect

\* C5: an STC closes min(qty, open long quantity) and a BTC closes
\* min(qty, open short quantity); the quantity beyond what is open is
\* dropped, so an STC never makes openQty negative, a BTC never makes it
\* positive, and neither increases totalOpenedQty or changes openDate.
C5_CloseIntentNeverFlips ==
    [][/\ IntentStep("STC") =>
            LET e == Last(events')
                p == CsvBefore
                closedQty == Min(e.qty, Max(p.openQty, 0))
            IN  /\ After.openQty = p.openQty - closedQty
                /\ After.totalClosedQty = p.totalClosedQty + closedQty
                /\ (p.openQty >= 0 => After.openQty >= 0)
                /\ After.totalOpenedQty = p.totalOpenedQty
                /\ After.openDate = p.openDate
       /\ IntentStep("BTC") =>
            LET e == Last(events')
                p == CsvBefore
                closedQty == Min(e.qty, Max(-p.openQty, 0))
            IN  /\ After.openQty = p.openQty + closedQty
                /\ After.totalClosedQty = p.totalClosedQty + closedQty
                /\ (p.openQty <= 0 => After.openQty <= 0)
                /\ After.totalOpenedQty = p.totalOpenedQty
                /\ After.openDate = p.openDate]_vars

\* an STC for 6 has just met a long position of 4: 4 closed, 2 dropped
C5_Witness ==
    /\ importer = "import-public-csv"
    /\ Len(events) = 2
    /\ ByIntent(events[2])
    /\ events[1].effect = "BTO" /\ events[1].qty = 4
    /\ events[2].effect = "STC" /\ events[2].qty = 6
    /\ positions[StateKey(contract)].openQty = 0
    /\ positions[StateKey(contract)].totalClosedQty = 4
    /\ positions[StateKey(contract)].totalOpenedQty = 4

\* C6: after a BTO of q the position is long with the previous long
\* quantity plus q, after an STO of q it is short with the previous short
\* size plus q, and neither changes realizedPl or totalClosedQty.
C6_OpenIntentAddsToItsSide ==
    [][/\ IntentStep("BTO") =>
            LET e == Last(events')
                p == CsvBefore
            IN  /\ After.openQty = Max(p.openQty, 0) + e.qty
                /\ After.realizedPl = p.realizedPl
                /\ After.totalClosedQty = p.totalClosedQty
       /\ IntentStep("STO") =>
            LET e == Last(events')
                p == CsvBefore
            IN  /\ After.openQty = -(Max(-p.openQty, 0) + e.qty)
                /\ After.realizedPl = p.realizedPl
                /\ After.totalClosedQty = p.totalClosedQty]_vars

(***************************************************************************)
(* toEvent of the Public CSV importer on one row, and on the same row with *)
(* CANCEL_ put in front of its Trade Action.                               *)
(***************************************************************************)
ParseRow(cell) ==
    [date |-> 1, tradeAction |-> cell, qty |-> 4, price |-> 8, symbol |-> contract]

ParseInit ==
    /\ importer = "import-public-csv"
    /\ pc = "parse"
    /\ contract \in Contracts
    /\ events = << >>
    /\ positions = EmptyMap
    /\ ledger = << >>
    /\ raw \in RawCells
    /\ parsed = << >>
    /\ manualIndex = EmptyMap
    /\ env = DefaultEnv
    /\ calls = << >>

ParseTradeAction ==
    /\ pc = "parse"
    /\ pc' = "parsed"
    /\ parsed' =
        [plain |-> toEvent(ParseRow(raw)),
         cancelled |-> toEvent(ParseRow(<<"CANCEL_">> \o raw))]
    /\ UNCHANGED raw
    /\ UNCHANGED <<importer, contract, events, positions, ledger>>
    /\ UNCHANGED runVars

SpecEffect == ParseInit /\ [][ParseTradeAction]_vars

\* the action class toEvent derives from an effect
ActionOfEffect(effect) == IF effect \in {"BTO", "BTC", "BUY"} THEN "BUY" ELSE "SELL"

\* the cancelled row carries the inverse of the plain row's effect, is
\* classified by it, and inverting twice gives the effect back
CancelInverts ==
    /\ parsed.cancelled # NoEvent
    /\ parsed.cancelled.effect = invertEffect(parsed.plain.effect)
    /\ parsed.cancelled.action = ActionOfEffect(invertEffect(parsed.plain.effect))
    /\ invertEffect(invertEffect(parsed.plain.effect)) = parsed.plain.effect

\* C7 as stated: for every recognised raw action code X the effect
\* inferred for CANCEL_X is the inverse of the effect inferred for X, the
\* event is classified by the inverted effect, and inverting twice gives
\* back the original effect.
C7_CancelInvertsEveryCode ==
    (pc = "parsed" /\ parsed.plain # NoEvent) => CancelInverts

\* C7 amended: the same for every recognised raw action code X that has no
\* leading whitespace and does not itself begin with CANCEL_ (in any case).
C7_CancelInvertsPlainCode ==
    (/\ pc = "parsed"
     /\ parsed.plain # NoEvent
     /\ trimStart(raw) = raw
     /\ toUpperCase(raw)[1] # "CANCEL_") => CancelInverts

\* CANCEL_BTO on an option row has been parsed as an STC, a SELL
C7_Witness ==
    /\ pc = "parsed"
    /\ raw = <<"BTO">>
    /\ contract = CallContract
    /\ parsed.plain.effect = "BTO"
    /\ parsed.cancelled.effect = "STC"
    /\ parsed.cancelled.action = "SELL"

(***************************************************************************)
(* Properties over the file importers.                                     *)
(***************************************************************************)
LongOnly == importer \in {"import-fidelity-csv-history", "reconcile-fidelity-csv"}

\* the position the event of this step was applied to
PositionBefore ==
    IF HasPosition THEN positions[StateKey(contract)]
    ELSE CASE importer = "import-robinhood" -> NewPositionRobinhood(contract)
           [] importer = "import-public-csv" -> NewPositionCsv(contract)
           [] importer = "import-fidelity-csv-history" ->
                NewPositionFidelity(Last(events'))
           [] OTHER -> NewCsvState

OpenQtyOf(p) == IF LongOnly THEN p.qtyOpen ELSE p.openQty

OpenedQtyOf(p) == IF LongOnly THEN p.totalBoughtQty ELSE p.totalOpenedQty

ClosedQtyOf(p) == IF LongOnly THEN p.totalSoldQty ELSE p.totalClosedQty

\* rows the importers of the model have created
CreatedRows ==
    { i \in 1 .. Len(ledger) :
        ledger[i].broker \in {"Robinhood (CSV)", "Public (CSV)", "Fidelity (CSV)"} }

\* C8: once an importer has processed all events, a position with
\* totalOpenedQty <= 0 or with no openDate produces no create call.
C8_NothingOpenedNoRow ==
    (pc = "done" /\ HasPosition) =>
        LET p == positions[StateKey(contract)]
        IN  (OpenedQtyOf(p) <= 0 \/ p.openDate = NoDate) => CreatedRows = {}

\* the Fidelity history import has finished on a contract that was only
\* sold, twice, and no row was created
C8_Witness ==
    /\ importer = "import-fidelity-csv-history"
    /\ pc = "done"
    /\ Len(events) = 2
    /\ \A i \in 1 .. Len(events) : events[i].action = "SELL"
    /\ HasPosition
    /\ positions[StateKey(contract)].totalBoughtQty = 0
    /\ positions[StateKey(contract)].openDate = NoDate
    /\ CreatedRows = {}

\* the event of this step is a close that finds nothing open to close
DroppedClose ==
    /\ Stepped
    /\ \/ /\ importer = "import-public-csv"
          /\ ByIntent(Last(events'))
          /\ \/ Last(events').effect = "STC" /\ PositionBefore.openQty <= 0
             \/ Last(events').effect = "BTC" /\ PositionBefore.openQty >= 0
       \/ /\ LongOnly
          /\ Last(events').action = "SELL"
          /\ PositionBefore.qtyOpen <= 0

\* C9 as stated: a closing event that finds nothing open to close leaves
\* every field of the position state unchanged.
C9_DroppedCloseChangesNothing ==
    [][DroppedClose => After = PositionBefore]_vars

\* C9 amended: such an event leaves the quantities, prices, totals, realized
\* P/L and dates of the position unchanged; in the Fidelity history import
\* it still fills in a trade type the position did not have yet.
C9_DroppedCloseKeepsAccounting ==
    [][DroppedClose =>
        IF importer = "import-fidelity-csv-history"
        THEN /\ After = [PositionBefore EXCEPT !.tradeType = After.tradeType]
             /\ After.tradeType \in {PositionBefore.tradeType, Last(events').tradeType}
             /\ PositionBefore.tradeType # "null" => After.tradeType = PositionBefore.tradeType
        ELSE After = PositionBefore]_vars

\* a SELL with nothing open has just given an untyped Fidelity position its
\* trade type and nothing else
C9_Witness ==
    /\ importer = "import-fidelity-csv-history"
    /\ Len(events) = 2
    /\ events[1].action = "SELL" /\ events[1].tradeType = "null"
    /\ events[2].action = "SELL" /\ events[2].tradeType = "Call"
    /\ positions[StateKey(contract)].tradeType = "Call"
    /\ positions[StateKey(contract)].qtyOpen = 0
    /\ positions[StateKey(contract)].totalSoldQty = 0
    /\ positions[StateKey(contract)].closeDate = NoDate

\* C10: whenever an event brings openQty back to exactly 0, closeDate is
\* set to that event's date.
C10_FlatSetsCloseDate ==
    [][(Stepped /\ OpenQtyOf(PositionBefore) # 0 /\ OpenQtyOf(After) = 0) =>
        After.closeDate = Last(events').date]_vars

(***************************************************************************)
(* Episodes: an opening event that follows a fully closed state.           *)
(***************************************************************************)
\* the Robinhood position after the first n events of the run
RECURSIVE RobinhoodStateAfter(_)
RobinhoodStateAfter(n) ==
    IF n = 0 THEN NewPositionRobinhood(contract)
    ELSE upsertPositionFromEventRobinhood(RobinhoodStateAfter(n - 1), events[n])

\* some event of the run met a position that had been opened and was flat again
Reopened ==
    \E n \in 1 .. Len(events) - 1 :
        /\ RobinhoodStateAfter(n).openQty = 0
        /\ RobinhoodStateAfter(n).totalClosedQty > 0

\* C11: when an opening event follows a fully closed state of the same
\* (account, contractKey), the closed episode and the re-opened episode are
\* materialized as two separate ledger records.
C11_ReopenSplitsRows ==
    (importer = "import-robinhood" /\ pc = "done" /\ Reopened) =>
        Cardinality(CreatedRows) >= 2

(***************************************************************************)
(* canonicalContractKey of the hybrid reconcile. A contract key is a        *)
(* sequence of tokens: a ticker, a six-digit expiry, C or P, single         *)
(* characters of the strike, whitespace and signs.                          *)
(***************************************************************************)
DigitChars == <<"0", "1", "2", "3", "4", "5", "6", "7", "8", "9">>

IsDigit(c) == \E i \in 1 .. 10 : DigitChars[i] = c

DigitOf(c) == (CHOOSE i \in 1 .. 10 : DigitChars[i] = c) - 1

\* String(n) of a non-negative integer
RECURSIVE NumberToString(_)
NumberToString(n) ==
    IF n < 10 THEN <<DigitChars[n + 1]>>
    ELSE NumberToString(n \div 10) \o <<DigitChars[(n % 10) + 1]>>

\* value of a sequence of digits
RECURSIVE DigitsValue(_)
DigitsValue(s) ==
    IF s = << >> THEN 0
    ELSE 10 * DigitsValue(SubSeq(s, 1, Len(s) - 1)) + DigitOf(s[Len(s)])

RECURSIVE Pow10(_)
Pow10(k) == IF k = 0 THEN 1 ELSE 10 * Pow10(k - 1)

\* index of the first "." of s from position i on, or Len(s) + 1
RECURSIVE DotFrom(_, _)
DotFrom(s, i) == IF i > Len(s) \/ s[i] = "." THEN i ELSE DotFrom(s, i + 1)

\* Number.parseFloat on a string of digits and dots: the longest numeric
\* prefix, NullNumber for NaN
parseFloat(s) ==
    LET dot == DotFrom(s, 1)
        whole == SubSeq(s, 1, dot - 1)
        next == DotFrom(s, dot + 1)
        frac == IF dot > Len(s) THEN << >> ELSE SubSeq(s, dot + 1, next - 1)
    IN  IF whole = << >> /\ frac = << >> THEN NullNumber
        ELSE Norm(DigitsValue(whole) * Pow10(Len(frac)) + DigitsValue(frac),
                  Pow10(Len(frac)))

\* Math.round of a non-negative number
MathRound(v) == (2 * v.n + v.d) \div (2 * v.d)

RECURSIVE padStart(_, _)
padStart(s, n) == IF Len(s) >= n THEN s ELSE padStart(<<"0">> \o s, n)

\* s.slice(-n)
sliceLast(s, n) == IF Len(s) <= n THEN s ELSE SubSeq(s, Len(s) - n + 1, Len(s))

\* s.replace(/\s+/g, "")
removeWhitespace(s) == SelectSeq(s, LAMBDA c : c # " ")

\* s.replace(/\D/g, "") on the characters of a strike
removeNonDigits(s) == SelectSeq(s, IsDigit)

KeyTickers == {"NFLX", "BRK.B"}

upperKey(s) ==
    [i \in 1 .. Len(s) |->
        CASE s[i] = "nflx" -> "NFLX"
          [] s[i] = "brk.b" -> "BRK.B"
          [] s[i] = "c" -> "C"
          [] s[i] = "p" -> "P"
          [] OTHER -> s[i]]

\* compact.match(/^([A-Z.\-]+)(\d{6})([CP])([0-9.]+)$/)
MatchesOption(compact) ==
    /\ Len(compact) >= 4
    /\ compact[1] \in KeyTickers
    /\ compact[2] = "260417"
    /\ compact[3] \in {"C", "P"}
    /\ \A i \in 4 .. Len(compact) : IsDigit(compact[i]) \/ compact[i] = "."

\* variant of the strike scaling without the shorthand heuristic
strikeDigitsNoShorthand(strikeRaw) ==
    LET scaled ==
            IF \E i \in 1 .. Len(strikeRaw) : strikeRaw[i] = "."
            THEN IF parseFloat(strikeRaw) # NullNumber
                 THEN NumberToString(MathRound(RMul(parseFloat(strikeRaw), R(1000))))
                 ELSE strikeRaw
            ELSE strikeRaw
        digits == removeNonDigits(scaled)
    IN  sliceLast(padStart(digits, 8), 8)

\* the strike field of the canonical key
strikeDigits(strikeRaw) ==
    LET scaled ==
            IF \E i \in 1 .. Len(strikeRaw) : strikeRaw[i] = "."
            THEN IF parseFloat(strikeRaw) # NullNumber
                 THEN NumberToString(MathRound(RMul(parseFloat(strikeRaw), R(1000))))
                 ELSE strikeRaw
            ELSE IF Len(strikeRaw) <= 3 THEN strikeRaw \o <<"0", "0", "0">>
            ELSE strikeRaw
        digits == removeNonDigits(scaled)
    IN  sliceLast(padStart(digits, 8), 8)

canonicalContractKey(value) ==
    LET trimmed0 == trim(value)
        trimmed ==
            IF trimmed0 # << >> /\ trimmed0[1] \in {"-", "+"} THEN Tail(trimmed0)
            ELSE trimmed0
        compact == upperKey(removeWhitespace(trimmed))
    IN  IF trimmed = << >> THEN << >>
        ELSE IF ~MatchesOption(compact) THEN compact
        ELSE <<compact[1], " ", compact[2], compact[3]>>
                \o strikeDigits(SubSeq(compact, 4, Len(compact)))

(***************************************************************************)
(* canonicalContractKey on the spellings of one option contract.           *)
(***************************************************************************)
MaxGap == 1

\* strikes in thousandths of a dollar
KeyStrikes == {500, 34000, 82000, 82500, 999000, 1000000, 4250000}

KeyContracts ==
    [ticker : KeyTickers, yymmdd : {"260417"}, cp : {"C", "P"}, strike : KeyStrikes]

RECURSIVE Spaces(_)
Spaces(n) == IF n = 0 THEN << >> ELSE <<" ">> \o Spaces(n - 1)

\* the fraction of a strike written with one to three decimals
StrikeFractions(v) ==
    LET three == padStart(NumberToString(v % 1000), 3)
    IN  {SubSeq(three, 1, k) : k \in {j \in 1 .. 3 : \A i \in j + 1 .. 3 : three[i] = "0"}}

\* the ways a source writes the strike: the 8-digit strike-times-1000
\* field, a decimal number, a whole-dollar shorthand
StrikeSpellings(v) ==
    {padStart(NumberToString(v), 8)}
    \cup {NumberToString(v \div 1000) \o <<".">> \o f : f \in StrikeFractions(v)}
    \cup (IF v % 1000 = 0 THEN {NumberToString(v \div 1000)} ELSE {})

lowerKeyToken(t) ==
    CASE t = "NFLX" -> "nflx"
      [] t = "BRK.B" -> "brk.b"
      [] t = "C" -> "c"
      [] t = "P" -> "p"
      [] OTHER -> t

KeySpellings(c) ==
    { Spaces(lead) \o sign \o <<IF lower THEN lowerKeyToken(c.ticker) ELSE c.ticker>>
        \o Spaces(gap) \o <<c.yymmdd, IF lower THEN lowerKeyToken(c.cp) ELSE c.cp>>
        \o strike \o Spaces(trail) :
        lead \in 0 .. 1, sign \in {<< >>, <<"-">>, <<"+">>}, lower \in BOOLEAN,
        gap \in 0 .. MaxGap, trail \in 0 .. 1, strike \in StrikeSpellings(c.strike) }

\* the spaced OCC form of the contract
OccSpelling(c) ==
    <<c.ticker, " ", c.yymmdd, c.cp>> \o padStart(NumberToString(c.strike), 8)

KeyInit ==
    /\ importer = "reconcile-fidelity-hybrid"
    /\ pc = "key"
    /\ contract \in KeyContracts
    /\ events = << >>
    /\ positions = EmptyMap
    /\ ledger = << >>
    /\ raw \in KeySpellings(contract)
    /\ parsed = << >>
    /\ manualIndex = EmptyMap
    /\ env = DefaultEnv
    /\ calls = << >>

\* canonicalContractKey applied to a row's contract key, and to its result
CanonicalizeKey ==
    /\ pc = "key"
    /\ pc' = "canonical"
    /\ parsed' =
        [key |-> canonicalContractKey(raw),
         again |-> canonicalContractKey(canonicalContractKey(raw))]
    /\ UNCHANGED <<importer, contract, events, positions, ledger, raw>>
    /\ UNCHANGED runVars

SpecContractKey == KeyInit /\ [][CanonicalizeKey]_vars

\* the spelling canonicalizes to the key of the spaced OCC form, a fixed point
SameKeyAsOcc ==
    /\ parsed.key = canonicalContractKey(OccSpelling(contract))
    /\ parsed.key = OccSpelling(contract)
    /\ parsed.again = parsed.key

\* the strike is written as whole dollars, without a decimal point
WholeDollarShorthand ==
    /\ contract.strike % 1000 = 0
    /\ \E lead \in 0 .. 1, sign \in {<< >>, <<"-">>, <<"+">>}, lower \in BOOLEAN,
          gap \in 0 .. MaxGap, trail \in 0 .. 1 :
        raw = Spaces(lead) \o sign
                \o <<IF lower THEN lowerKeyToken(contract.ticker) ELSE contract.ticker>>
                \o Spaces(gap)
                \o <<contract.yymmdd, IF lower THEN lowerKeyToken(contract.cp) ELSE contract.cp>>
                \o NumberToString(contract.strike \div 1000) \o Spaces(trail)

\* C12 as stated: every spelling of the same option contract, for any
\* ticker, expiry, C/P and strike, canonicalizes to the identical key, and
\* canonicalizing a canonical key returns it unchanged.
C12_EverySpellingSameKey ==
    pc = "canonical" => SameKeyAsOcc

\* C12 amended: the same, except that the whole-dollar shorthand is only
\* covered for strikes below 1000 dollars (at most three digits).
C12_SpellingsSameKeyShortStrike ==
    (pc = "canonical" /\ ~(WholeDollarShorthand /\ contract.strike >= 1000000)) =>
        SameKeyAsOcc

\* -nflx260417c82 has been canonicalized to NFLX 260417C00082000
C12_Witness ==
    /\ pc = "canonical"
    /\ raw = <<"-", "nflx", "260417", "c", "8", "2">>
    /\ parsed.key = <<"NFLX", " ", "260417", "C", "0", "0", "0", "8", "2", "0", "0", "0">>
    /\ parsed.again = parsed.key

(***************************************************************************)
(* runReconcileFidelityCsv after buildCsvStateMap: the Fidelity (CSV) rows *)
(* of the store are archived as duplicates of Fidelity rows or closed from *)
(* the CSV state.  Contract keys of these rows are sequences of tokens.    *)
(***************************************************************************)
\* normalizeAccountFromNotion on the account cells of the model
normalizeAccountFromNotion(value) ==
    CASE value \in {"TAXABLE FUN", "Taxable (Fun)", "Fun"} -> "TAXABLE FUN"
      [] value = "Roth IRA" -> "IRA ROTH"
      [] value = "Brokerage Account" -> "BROKERAGE ACCOUNT"
      [] OTHER -> value

\* value.trim().replace(/^[-+]/, "").toUpperCase()
normalizeContractKey(value) ==
    LET trimmed == trim(value)
    IN  upperKey(IF trimmed # << >> /\ trimmed[1] \in {"-", "+"} THEN Tail(trimmed)
                 ELSE trimmed)

\* value.replace(/\s+/g, "").toUpperCase().trim()
normContract(value) == trim(upperKey(removeWhitespace(value)))

\* Math.round(value * 10000) / 10000, NullNumber for the empty string
numKey(value) ==
    IF value = NullNumber THEN NullNumber
    ELSE Norm(MathRound(RMul(value, R(10000))), 10000)

\* value.trim().toUpperCase() on the Status cells of the model
statusUpper(value) ==
    CASE value = "Open" -> "OPEN"
      [] value = "Closed" -> "CLOSED"
      [] OTHER -> value

fp(row) ==
    <<normalizeAccountFromNotion(row.account), normContract(row.contractKey),
      row.tradeDate, numKey(row.qty), numKey(row.fillPrice)>>

\* /^[A-Z.\-]+\d{6}[CP]\d+$/i on a key without whitespace
isOptionContractKey(compact) ==
    /\ Len(compact) >= 4
    /\ upperKey(compact)[1] \in KeyTickers
    /\ compact[2] = "260417"
    /\ upperKey(compact)[3] \in {"C", "P"}
    /\ \A i \in 4 .. Len(compact) : IsDigit(compact[i])

\* the expiry 2026-04-17 of the keys of the model, before the day of the run
optionExpiryFromContractKey(compact) ==
    IF isOptionContractKey(compact) THEN OptionExpiry ELSE NoDate

\* the Fidelity CSV symbol -NFLX260417C82 and its contract
ReconcileCsvContract ==
    [ticker |-> "NFLX", contractKey |-> <<"NFLX", "260417", "C", "8", "2">>,
     tradeType |-> "Call", multiplier |-> 100]

ReconcileOccKey ==
    <<"NFLX", " ", "260417", "C", "0", "0", "0", "8", "2", "0", "0", "0">>

\* a Trade page of the store as the reconcile command reads it
StorePage(broker, account, contractKey, status, tradeDate, qty, fillPrice) ==
    [ticker |-> "NFLX",
     contractKey |-> contractKey,
     status |-> status,
     qty |-> qty,
     fillPrice |-> fillPrice,
     side |-> "null",
     tradeType |-> "Call",
     tradeDate |-> tradeDate,
     lastAddDate |-> NoDate,
     broker |-> broker,
     account |-> account,
     strategy |-> "null",
     tags |-> << >>,
     closeDate |-> IF status = "CLOSED" THEN tradeDate ELSE NoDate,
     closePrice |-> IF status = "CLOSED" THEN R(900) ELSE NullNumber,
     plAtClose |-> IF status = "CLOSED" THEN R(400) ELSE NullNumber,
     archived |-> FALSE]

\* the row of the live Fidelity source
FidelityStoreRow ==
    StorePage("Fidelity", "Taxable (Fun)", ReconcileOccKey, "OPEN", 1, R(4), R(800))

\* rows of other sources that may stand beside it
OtherStoreRows ==
    { StorePage("Fidelity (CSV)", "TAXABLE FUN", k, "OPEN", 1, R(4), R(800)) :
        k \in {ReconcileOccKey,
               <<"nflx", "260417", "c", "0", "0", "0", "8", "2", "0", "0", "0">>,
               ReconcileCsvContract.contractKey} }
    \cup { StorePage("Fidelity (CSV)", "TAXABLE FUN", ReconcileOccKey, "OPEN", 1, q, R(800)) :
            q \in {Norm(40001, 10000), Norm(4001, 1000)} }
    \cup { StorePage("Fidelity (CSV)", "TAXABLE FUN", ReconcileCsvContract.contractKey,
                     st, MaxCsvDate, R(4), R(800)) : st \in {"OPEN", "CLOSED"} }
    \cup { StorePage("Fidelity (CSV)", "Roth IRA", ReconcileOccKey, "OPEN", 1, R(4), R(800)),
           StorePage("Public", "Brokerage Account", ReconcileOccKey, "OPEN", 1, R(4), R(800)) }

ReconcileEnvs ==
    { [dryRun |-> FALSE, forceExpireClose |-> FALSE],
      [dryRun |-> TRUE, forceExpireClose |-> FALSE],
      [dryRun |-> FALSE, forceExpireClose |-> TRUE] }

ReconcileStoreInit ==
    /\ importer = "reconcile-fidelity-csv"
    /\ pc = "events"
    /\ contract = ReconcileCsvContract
    /\ events = << >>
    /\ positions = EmptyMap
    /\ \E other \in OtherStoreRows :
        ledger \in {<<FidelityStoreRow, other>>, <<other, FidelityStoreRow>>}
    /\ raw = << >>
    /\ parsed = << >>
    /\ manualIndex = EmptyMap
    /\ env \in ReconcileEnvs
    /\ calls = << >>

\* rows the query loop keeps: not archived, broker Fidelity or Fidelity (CSV),
\* with a contract key and an account
ReconcileListed(page) ==
    /\ ~page.archived
    /\ page.broker \in {"Fidelity", "Fidelity (CSV)"}
    /\ page.contractKey # << >>
    /\ page.account # ""

\* one iteration of `for (const row of fidelityCsvRows)`
reconcileCsvRow(pages, row) ==
    LET fidelityFingerprints ==
            { fp(pages[j]) :
                j \in {k \in 1 .. Len(pages) :
                        ReconcileListed(pages[k]) /\ pages[k].broker = "Fidelity"} }
        key == normalizeContractKey(row.contractKey)
        known ==
            /\ normalizeAccountFromNotion(row.account) = EventAccount
            /\ key \in DOMAIN positions
        compactKey == normContract(row.contractKey)
        expiry == optionExpiryFromContractKey(compactKey)
    IN  IF fp(row) \in fidelityFingerprints
        THEN IF env.dryRun THEN row ELSE [row EXCEPT !.archived = TRUE]
        ELSE IF statusUpper(row.status) # "OPEN" THEN row
        ELSE IF (IF known
                 THEN positions[key].qtyOpen > 0 \/ positions[key].closeDate = NoDate
                 ELSE TRUE)
        THEN IF env.forceExpireClose /\ expiry # NoDate /\ expiry <= Today /\ ~env.dryRun
             THEN [row EXCEPT
                    !.status = "CLOSED",
                    !.closeDate = expiry,
                    !.closePrice = R(0),
                    !.plAtClose = RSub(R(0), round2(RMul(row.fillPrice, row.qty)))]
             ELSE row
        ELSE IF env.dryRun THEN row
        ELSE LET p == positions[key]
             IN  [row EXCEPT
                    !.status = "CLOSED",
                    !.closeDate = p.closeDate,
                    !.closePrice =
                        IF p.totalSoldQty > 0
                        THEN round2(RDiv(R(p.totalSoldPrice), R(p.totalSoldQty)))
                        ELSE NullNumber,
                    !.plAtClose = round2(p.realizedPl)]

\* the loop over fidelityCsvRows, every store write of the command
ReconcileCsvRows ==
    /\ importer = "reconcile-fidelity-csv"
    /\ pc = "built"
    /\ pc' = "reconciled"
    /\ ledger' =
        [i \in 1 .. Len(ledger) |->
            IF ReconcileListed(ledger[i]) /\ ledger[i].broker = "Fidelity (CSV)"
            THEN reconcileCsvRow(ledger, ledger[i])
            ELSE ledger[i]]
    /\ calls' =
        calls \o SelectSeq(
            [i \in 1 .. Len(ledger) |->
                [op |-> IF ledger'[i].archived # ledger[i].archived THEN "archive" ELSE "update",
                 pageId |-> i,
                 tradeDate |-> NoDate]],
            LAMBDA c : ledger'[c.pageId] # ledger[c.pageId])
    /\ UNCHANGED <<importer, contract, events, positions>>
    /\ UNCHANGED parseVars
    /\ UNCHANGED <<manualIndex, env>>

ReconcileCsvNext == ReconcileNext \/ ReconcileCsvRows

SpecReconcileCsv == ReconcileStoreInit /\ [][ReconcileCsvNext]_vars

\* the fingerprint of two records of one position: account, canonical
\* contract key, open date, quantity and fill price rounded to cents
PositionFingerprint(page) ==
    <<normalizeAccountFromNotion(page.account), canonicalContractKey(page.contractKey),
      page.tradeDate, round2(page.qty), round2(page.fillPrice)>>

\* C13: after a reconcile run that writes, of two records from different
\* sources with equal (account, canonical contract key, open date, quantity
\* in cents, fill price in cents) only one is left non-archived.
C13_EqualFingerprintLeavesOne ==
    (importer = "reconcile-fidelity-csv" /\ pc = "reconciled" /\ ~env.dryRun) =>
        \A i, j \in 1 .. Len(ledger) :
            (/\ i < j
             /\ ledger[i].broker # ledger[j].broker
             /\ PositionFingerprint(ledger[i]) = PositionFingerprint(ledger[j]))
            => (ledger[i].archived # ledger[j].archived)

(***************************************************************************)
(* runReconcileFidelityHybrid: Fidelity (CSV) rows against the rows of the *)
(* live Fidelity source.  positions holds the locals of the command: the   *)
(* rows it listed, archivedCsvPageIds, and pairs, the CSV row and the live *)
(* row each rule treated as the same position, with the row it kept.       *)
(***************************************************************************)
\* normAcct on the account cells of the model
normAcct(value) ==
    CASE value \in {"TAXABLE FUN", "Taxable (Fun)", "Fun"} -> "TAXABLE FUN"
      [] value = "Roth IRA" -> "IRA ROTH"
      [] OTHER -> value

baseKey(row) == <<normAcct(row.account), canonicalContractKey(row.contractKey)>>

\* the Row literal of listFidelityAndCsvRows; the page id is the index
HybridRow(pages, n) ==
    [pageId |-> n,
     broker |-> pages[n].broker,
     status |-> statusUpper(pages[n].status),
     account |-> pages[n].account,
     contractKey |-> pages[n].contractKey,
     openDate |-> pages[n].tradeDate,
     closeDate |-> pages[n].closeDate,
     qty |-> pages[n].qty]

RECURSIVE listFidelityAndCsvRows(_, _)
listFidelityAndCsvRows(pages, n) ==
    IF n > Len(pages) THEN << >>
    ELSE (IF /\ ~pages[n].archived
             /\ pages[n].broker \in {"Fidelity", "Fidelity (CSV)"}
             /\ statusUpper(pages[n].status) \in {"OPEN", "CLOSED"}
             /\ pages[n].account # ""
             /\ pages[n].contractKey # << >>
          THEN <<HybridRow(pages, n)>>
          ELSE << >>) \o listFidelityAndCsvRows(pages, n + 1)

\* Map.get of a key that was never set
NoRow ==
    [pageId |-> 0, broker |-> "", status |-> "", account |-> "", contractKey |-> << >>,
     openDate |-> NoDate, closeDate |-> NoDate, qty |-> NullNumber]

\* apiOpen and apiOpenByBase: the last OPEN Fidelity row set under the key
apiOpen(rows, k) ==
    LET set == {n \in 1 .. Len(rows) :
                    /\ rows[n].broker = "Fidelity"
                    /\ rows[n].status = "OPEN"
                    /\ baseKey(rows[n]) = k}
    IN  IF set = {} THEN NoRow ELSE rows[CHOOSE n \in set : \A m \in set : m <= n]

\* apiClosedByBase.get(k) ?? []
apiClosedByBase(rows, k) ==
    SelectSeq(rows, LAMBDA r : r.broker = "Fidelity" /\ r.status = "CLOSED" /\ baseKey(r) = k)

apiBaseKeys(rows) == {baseKey(rows[n]) : n \in {m \in 1 .. Len(rows) : rows[m].broker = "Fidelity"}}

\* client.pages.update of the open date; the store refuses to edit an
\* archived page and the error is swallowed
safeUpdateProps(st, pageId, tradeDate) ==
    IF env.dryRun THEN st
    ELSE [st EXCEPT
            !.ledger =
                IF st.ledger[pageId].archived THEN @
                ELSE [@ EXCEPT ![pageId].tradeDate = tradeDate],
            !.calls = Append(@, [op |-> "update", pageId |-> pageId, tradeDate |-> tradeDate])]

safeArchive(st, pageId) ==
    IF env.dryRun THEN st
    ELSE [st EXCEPT
            !.ledger = [@ EXCEPT ![pageId].archived = TRUE],
            !.calls = Append(@, [op |-> "archive", pageId |-> pageId, tradeDate |-> NoDate])]

\* r.openDate && (!api.openDate || r.openDate < api.openDate)
EarlierOpenDate(r, api) ==
    r.openDate # NoDate /\ (api.openDate = NoDate \/ r.openDate < api.openDate)

\* `for (const r of csvOpen)`
RECURSIVE csvOpenLoop(_, _, _)
csvOpenLoop(rows, n, st) ==
    IF n > Len(rows) THEN st
    ELSE LET r == rows[n]
             api == apiOpen(rows, baseKey(r))
         IN  IF r.broker = "Fidelity" \/ r.status # "OPEN" \/ api.pageId = 0
             THEN csvOpenLoop(rows, n + 1, st)
             ELSE LET updated ==
                        IF EarlierOpenDate(r, api)
                        THEN safeUpdateProps(st, api.pageId, r.openDate)
                        ELSE st
                      archived == safeArchive(updated, r.pageId)
                  IN  csvOpenLoop(rows, n + 1,
                        [archived EXCEPT
                            !.archivedCsvPageIds = @ \cup {r.pageId},
                            !.pairs = Append(@, [csv |-> r, api |-> api, winner |-> "API",
                                                 rule |-> "csvOpen"])])

afterCutoff(d) == d # NoDate /\ d >= env.cutoff

inOverlapWindow(r) == afterCutoff(r.openDate) \/ afterCutoff(r.closeDate)

\* the general rule: `for (const r of rows)` over the Fidelity (CSV) rows
RECURSIVE afterCutoffLoop(_, _, _)
afterCutoffLoop(rows, n, st) ==
    IF n > Len(rows) THEN st
    ELSE LET r == rows[n]
             k == baseKey(r)
             closed == apiClosedByBase(rows, k)
             api == IF apiOpen(rows, k).pageId # 0 THEN apiOpen(rows, k)
                    ELSE IF closed # << >> THEN closed[1]
                    ELSE NoRow
         IN  IF \/ r.broker # "Fidelity (CSV)"
                \/ ~inOverlapWindow(r)
                \/ k \notin apiBaseKeys(rows)
                \/ r.pageId \in st.archivedCsvPageIds
             THEN afterCutoffLoop(rows, n + 1, st)
             ELSE LET updated ==
                        IF api.pageId # 0 /\ EarlierOpenDate(r, api)
                        THEN safeUpdateProps(st, api.pageId, r.openDate)
                        ELSE st
                      archived == safeArchive(updated, r.pageId)
                  IN  afterCutoffLoop(rows, n + 1,
                        [archived EXCEPT
                            !.archivedCsvPageIds = @ \cup {r.pageId},
                            !.pairs = Append(@, [csv |-> r, api |-> api, winner |-> "API",
                                                 rule |-> "afterCutoff"])])

\* whole days between two dates
daysBetween(a, b) == Abs(a - b)

\* apiRows.filter(...) for one closed CSV row
closedCandidates(csv, apiRows) ==
    SelectSeq(apiRows,
        LAMBDA api :
            \/ csv.closeDate = NoDate
            \/ api.closeDate = NoDate
            \/ daysBetween(csv.closeDate, api.closeDate) <= 2)

\* candidates.sort(...)[0] for at most two candidates: the sort is stable
\* and moves the second one forward only when it is strictly closer
closestCandidate(csv, candidates) ==
    IF /\ Len(candidates) >= 2
       /\ csv.closeDate # NoDate
       /\ candidates[1].closeDate # NoDate
       /\ candidates[2].closeDate # NoDate
       /\ daysBetween(csv.closeDate, candidates[1].closeDate)
            > daysBetween(csv.closeDate, candidates[2].closeDate)
    THEN candidates[2]
    ELSE candidates[1]

\* variant that never lets the quantity decide
closedWinnerIgnoringQty(csv, api) ==
    IF csv.openDate # NoDate /\ api.openDate # NoDate /\ csv.openDate < api.openDate
    THEN "CSV"
    ELSE "API"

\* qtyWinner ?? openWinner ?? "API"
closedWinner(csv, api) ==
    LET qtyWinner ==
            IF csv.qty # NullNumber /\ api.qty # NullNumber
            THEN IF RSub(csv.qty, api.qty).n > 0 THEN "CSV"
                 ELSE IF RSub(api.qty, csv.qty).n > 0 THEN "API"
                 ELSE "null"
            ELSE "null"
        openWinner ==
            IF qtyWinner = "null" /\ csv.openDate # NoDate /\ api.openDate # NoDate
            THEN IF csv.openDate < api.openDate THEN "CSV"
                 ELSE IF api.openDate < csv.openDate THEN "API"
                 ELSE "null"
            ELSE "null"
    IN  IF qtyWinner # "null" THEN qtyWinner
        ELSE IF openWinner # "null" THEN openWinner
        ELSE "API"

\* `for (const [k, csvRows] of csvClosedByBase.entries())`, the closed
\* Fidelity (CSV) rows in listing order
RECURSIVE closedOverlapLoop(_, _, _)
closedOverlapLoop(rows, n, st) ==
    IF n > Len(rows) THEN st
    ELSE LET csv == rows[n]
             candidates == closedCandidates(csv, apiClosedByBase(rows, baseKey(csv)))
         IN  IF csv.broker = "Fidelity" \/ csv.status # "CLOSED" \/ candidates = << >>
             THEN closedOverlapLoop(rows, n + 1, st)
             ELSE LET api == closestCandidate(csv, candidates)
                      winner == closedWinner(csv, api)
                      paired ==
                        [st EXCEPT
                            !.pairs = Append(@, [csv |-> csv, api |-> api, winner |-> winner,
                                                 rule |-> "closed"])]
                  IN  closedOverlapLoop(rows, n + 1,
                        IF winner = "API"
                        THEN safeArchive(
                                IF EarlierOpenDate(csv, api)
                                THEN safeUpdateProps(paired, api.pageId, csv.openDate)
                                ELSE paired,
                                csv.pageId)
                        ELSE safeArchive(paired, api.pageId))

\* FIDELITY_HYBRID_CUTOFF_DATE
HybridCutoff == MaxDate

HybridOpenDates == {NoDate, MaxDate - 2, MaxDate - 1, MaxDate}

HybridCloseDates == {NoDate, MaxDate - 1, MaxDate, MaxDate + 3}

HybridQtys == {NullNumber, R(4), R(6)}

HybridPage(broker, account, contractKey, status, openDate, closeDate, qty) ==
    [StorePage(broker, account, contractKey, status, openDate, qty, R(800))
        EXCEPT !.closeDate = closeDate]

\* pages of one source: OPEN ones without a close date, CLOSED ones closed
\* on or after the day they were opened
HybridPages(broker, account, contractKey, openDates, closeDates, qtys) ==
    { HybridPage(broker, account, contractKey, "OPEN", o, NoDate, q) :
        o \in openDates, q \in qtys }
    \cup { HybridPage(broker, account, contractKey, "CLOSED", oc[1], oc[2], q) :
            oc \in {x \in openDates \X closeDates : x[2] = NoDate \/ x[1] <= x[2]},
            q \in qtys }

ApiPages ==
    HybridPages("Fidelity", "Taxable (Fun)", ReconcileOccKey,
                HybridOpenDates, HybridCloseDates, HybridQtys)

CsvPages ==
    UNION { HybridPages("Fidelity (CSV)", ak[1], ak[2],
                        HybridOpenDates, HybridCloseDates, HybridQtys) :
            ak \in {<<"TAXABLE FUN", ReconcileOccKey>>,
                    <<"TAXABLE FUN", ReconcileCsvContract.contractKey>>,
                    <<"Roth IRA", ReconcileOccKey>>} }

\* stores of two rows, of two open CSV rows beside an open live row, and of
\* one closed CSV row beside two closed live rows
HybridStores ==
    { <<api, csv>> : api \in ApiPages, csv \in CsvPages }
    \cup { <<api, csv1, csv2>> :
            api \in HybridPages("Fidelity", "Taxable (Fun)", ReconcileOccKey,
                                HybridOpenDates, {}, {R(4)}),
            csv1 \in HybridPages("Fidelity (CSV)", "TAXABLE FUN", ReconcileCsvContract.contractKey,
                                 HybridOpenDates, {}, {R(4)}),
            csv2 \in HybridPages("Fidelity (CSV)", "Fun", ReconcileCsvContract.contractKey,
                                 HybridOpenDates, {}, {R(4)}) }
    \cup { <<csv, api1, api2>> :
            csv \in { HybridPage("Fidelity (CSV)", "TAXABLE FUN", ReconcileCsvContract.contractKey,
                                 "CLOSED", 1, c, q) :
                        c \in HybridCloseDates, q \in {R(4), R(6)} },
            api1 \in { HybridPage("Fidelity", "Taxable (Fun)", ReconcileOccKey,
                                  "CLOSED", 1, c, R(4)) : c \in HybridCloseDates },
            api2 \in { HybridPage("Fidelity", "Taxable (Fun)", ReconcileOccKey,
                                  "CLOSED", 1, c, R(6)) : c \in HybridCloseDates } }

HybridInit ==
    /\ importer = "reconcile-fidelity-hybrid"
    /\ pc = "rows"
    /\ contract = ReconcileCsvContract
    /\ events = << >>
    /\ positions = EmptyMap
    /\ ledger \in HybridStores
    /\ raw = << >>
    /\ parsed = << >>
    /\ manualIndex = EmptyMap
    /\ env \in {[dryRun |-> d, cutoff |-> HybridCutoff] : d \in BOOLEAN}
    /\ calls = << >>

\* `const rows = await listFidelityAndCsvRows()` and the empty locals
HybridListRows ==
    /\ importer = "reconcile-fidelity-hybrid"
    /\ pc = "rows"
    /\ pc' = "csvOpen"
    /\ positions' =
        [rows |-> listFidelityAndCsvRows(ledger, 1),
         archivedCsvPageIds |-> {},
         pairs |-> << >>]
    /\ UNCHANGED <<importer, contract, events, ledger>>
    /\ UNCHANGED parseVars
    /\ UNCHANGED runVars

\* the store, the call log and the locals a loop starts from
HybridLocals ==
    [ledger |-> ledger,
     calls |-> calls,
     archivedCsvPageIds |-> positions.archivedCsvPageIds,
     pairs |-> positions.pairs]

HybridCommit(st) ==
    /\ ledger' = st.ledger
    /\ calls' = st.calls
    /\ positions' =
        [positions EXCEPT
            !.archivedCsvPageIds = st.archivedCsvPageIds,
            !.pairs = st.pairs]
    /\ UNCHANGED <<importer, contract, events>>
    /\ UNCHANGED parseVars
    /\ UNCHANGED <<manualIndex, env>>

HybridCsvOpen ==
    /\ importer = "reconcile-fidelity-hybrid"
    /\ pc = "csvOpen"
    /\ pc' = "afterCutoff"
    /\ HybridCommit(csvOpenLoop(positions.rows, 1, HybridLocals))

HybridAfterCutoff ==
    /\ importer = "reconcile-fidelity-hybrid"
    /\ pc = "afterCutoff"
    /\ pc' = "closed"
    /\ HybridCommit(afterCutoffLoop(positions.rows, 1, HybridLocals))

HybridClosedOverlaps ==
    /\ importer = "reconcile-fidelity-hybrid"
    /\ pc = "closed"
    /\ pc' = "reconciled"
    /\ HybridCommit(closedOverlapLoop(positions.rows, 1, HybridLocals))

HybridNext ==
    HybridListRows \/ HybridCsvOpen \/ HybridAfterCutoff \/ HybridClosedOverlaps

SpecHybrid == HybridInit /\ [][HybridNext]_vars

(***************************************************************************)
(* Properties of the hybrid reconcile.                                     *)
(***************************************************************************)
HybridRunning == importer = "reconcile-fidelity-hybrid" /\ pc \notin {"key", "canonical", "rows"}

HybridPairs == IF HybridRunning THEN positions.pairs ELSE << >>

RLess(a, b) == a.n * b.d < b.n * a.d

\* quantity, then open date, then the live row
PreferredOfPair(csv, api) ==
    IF csv.qty # NullNumber /\ api.qty # NullNumber /\ csv.qty # api.qty
    THEN IF RLess(api.qty, csv.qty) THEN "CSV" ELSE "API"
    ELSE IF csv.openDate # NoDate /\ api.openDate # NoDate /\ csv.openDate # api.openDate
    THEN IF csv.openDate < api.openDate THEN "CSV" ELSE "API"
    ELSE "API"

Loser(pair) == IF pair.winner = "API" THEN pair.csv ELSE pair.api

Winner(pair) == IF pair.winner = "API" THEN pair.api ELSE pair.csv

\* C14: a closed CSV row and a closed live row matched as one position
\* (same base key, close dates at most 2 days apart): the row kept is the
\* one with the strictly larger quantity when both are known, else the one
\* with the strictly earlier open date when both are known, else the live
\* row; the other one is archived.
C14_ClosedPairWinner ==
    \A i \in 1 .. Len(HybridPairs) :
        LET pair == HybridPairs[i]
        IN  pair.rule = "closed" =>
                /\ pair.csv.broker = "Fidelity (CSV)" /\ pair.api.broker = "Fidelity"
                /\ pair.csv.status = "CLOSED" /\ pair.api.status = "CLOSED"
                /\ baseKey(pair.csv) = baseKey(pair.api)
                /\ (pair.csv.closeDate # NoDate /\ pair.api.closeDate # NoDate)
                        => Abs(pair.csv.closeDate - pair.api.closeDate) <= 2
                /\ pair.winner = PreferredOfPair(pair.csv, pair.api)
                /\ (pc = "reconciled" /\ ~env.dryRun) => ledger[Loser(pair).pageId].archived

\* a closed CSV row of 6 beside a closed live row of 4, closed one day
\* apart before the cutoff: the CSV row is kept and the live row archived
C14_Witness ==
    /\ HybridRunning
    /\ pc = "reconciled"
    /\ ~env.dryRun
    /\ \E i \in 1 .. Len(HybridPairs) :
        LET pair == HybridPairs[i]
        IN  /\ pair.rule = "closed"
            /\ pair.csv.qty = R(6) /\ pair.api.qty = R(4)
            /\ pair.csv.closeDate = MaxDate - 1 /\ pair.api.closeDate = MaxDate
            /\ pair.csv.openDate = MaxDate - 2
            /\ pair.winner = "CSV"
            /\ ledger[pair.api.pageId].archived
            /\ ~ledger[pair.csv.pageId].archived

\* the open-date update of the kept row is issued before the archive call
\* of the other row
BackfilledBeforeArchive(pair) ==
    \E i, j \in 1 .. Len(calls) :
        /\ i < j
        /\ calls[i] = [op |-> "update", pageId |-> Winner(pair).pageId,
                       tradeDate |-> Loser(pair).openDate]
        /\ calls[j] = [op |-> "archive", pageId |-> Loser(pair).pageId, tradeDate |-> NoDate]

EarlierLoser(pair) ==
    /\ Loser(pair).openDate # NoDate
    /\ Winner(pair).openDate # NoDate
    /\ Loser(pair).openDate < Winner(pair).openDate

\* C15: whenever the archived row of a matched pair has an open date
\* strictly earlier than the kept row's, the kept row's open date is
\* updated to it before the archive call, whichever source is kept.
C15_EarlierOpenDateBackfilled ==
    ~env.dryRun =>
        \A i \in 1 .. Len(HybridPairs) :
            EarlierLoser(HybridPairs[i]) => BackfilledBeforeArchive(HybridPairs[i])

\* C16: after the run, of every CSV/live pair treated as one position the
\* loser is archived and the winner is not.
C16_OneOfPairSurvives ==
    (HybridRunning /\ pc = "reconciled" /\ ~env.dryRun) =>
        \A i \in 1 .. Len(HybridPairs) :
            /\ ledger[Loser(HybridPairs[i]).pageId].archived
            /\ ~ledger[Winner(HybridPairs[i]).pageId].archived

\* C17: an OPEN CSV row is archived when a live row, OPEN or CLOSED, with
\* its base key occurs on or after the cutoff date, and no CSV row is
\* archived whose base key matches no live row.
C17_OpenCsvArchivedAfterCutoff ==
    (HybridRunning /\ pc = "reconciled" /\ ~env.dryRun) =>
        \A n \in 1 .. Len(positions.rows) :
            LET r == positions.rows[n]
            IN  r.broker = "Fidelity (CSV)" =>
                    /\ (/\ r.status = "OPEN"
                        /\ \E m \in 1 .. Len(positions.rows) :
                            /\ positions.rows[m].broker = "Fidelity"
                            /\ baseKey(positions.rows[m]) = baseKey(r)
                            /\ inOverlapWindow(positions.rows[m]))
                        => ledger[r.pageId].archived
                    /\ baseKey(r) \notin apiBaseKeys(positions.rows)
                        => ~ledger[r.pageId].archived

(***************************************************************************)
(* Rebuilds on a store that already holds a row of the importing source    *)
(* with a strategy and a tag set by the user: the archive step and the     *)
(* load of the manual index, in the order each importer runs them.         *)
(***************************************************************************)
CsvImporters == {"import-robinhood", "import-public-csv", "import-fidelity-csv-history"}

\* the broker label an importer writes and archives
RebuildBroker ==
    CASE importer = "import-robinhood" -> "Robinhood (CSV)"
      [] importer = "import-public-csv" -> "Public (CSV)"
      [] importer = "import-fidelity-csv-history" -> "Fidelity (CSV)"
      [] importer = "import-public-api" -> "Public"
      [] OTHER -> "PUBLIC"

\* archiveAllPages keeps the Trade rows of Fidelity, Public (PDF) and
\* Public (History)
archiveAllPages(pages) ==
    [i \in 1 .. Len(pages) |->
        IF \/ pages[i].archived
           \/ startsWith(pages[i].broker, "Fidelity")
           \/ startsWith(pages[i].broker, "Public (PDF)")
           \/ startsWith(pages[i].broker, "Public (History)")
        THEN pages[i]
        ELSE [pages[i] EXCEPT !.archived = TRUE]]

\* the row an earlier run of the importer created on the first trade date,
\* with the strategy and the tag the user has set on it since
PreviousPage ==
    [ExistingPublicPage EXCEPT
        !.broker = RebuildBroker,
        !.account = EventAccount,
        !.strategy = "Swing",
        !.tags = <<"earnings">>]

RebuildInit ==
    /\ importer \in CsvImporters \cup ApiImporters
    /\ pc = "start"
    /\ contract = StockContract
    /\ events = << >>
    /\ positions = EmptyMap
    /\ ledger = <<PreviousPage>>
    /\ raw = << >>
    /\ parsed = << >>
    /\ manualIndex = EmptyMap
    /\ env = DefaultEnv
    /\ calls = << >>

\* archiveTradePagesByBrokerPrefix / archiveTradePagesByExactBroker, the
\* first store call of the three CSV importers
ArchiveExisting ==
    /\ importer \in CsvImporters
    /\ pc = "start"
    /\ pc' = "archived"
    /\ ledger' =
        IF importer = "import-fidelity-csv-history"
        THEN archiveTradePagesByExactBroker(ledger, RebuildBroker)
        ELSE archiveTradePagesByBrokerPrefix(ledger, RebuildBroker)
    /\ UNCHANGED <<importer, contract, events, positions>>
    /\ UNCHANGED parseVars
    /\ UNCHANGED runVars

\* loadManualStrategyTagsIndexForBroker, called after the archive call
LoadManualIndex ==
    /\ importer \in CsvImporters
    /\ pc = "archived"
    /\ pc' = "events"
    /\ manualIndex' = loadManualStrategyTagsIndexForBroker(ledger, RebuildBroker)
    /\ UNCHANGED <<importer, contract, events, positions, ledger>>
    /\ UNCHANGED parseVars
    /\ UNCHANGED <<env, calls>>

\* runImportPublicApi loads the index first
ApiLoadManualIndex ==
    /\ importer = "import-public-api"
    /\ pc = "start"
    /\ pc' = "indexed"
    /\ manualIndex' = loadManualStrategyTagsIndexForBroker(ledger, "Public")
    /\ UNCHANGED <<importer, contract, events, positions, ledger>>
    /\ UNCHANGED parseVars
    /\ UNCHANGED <<env, calls>>

\* and archives the rows of broker Public after it
ApiArchiveExisting ==
    /\ importer = "import-public-api"
    /\ pc = "indexed"
    /\ pc' = "events"
    /\ ledger' = archiveTradePagesByExactBroker(ledger, "Public")
    /\ UNCHANGED <<importer, contract, events, positions>>
    /\ UNCHANGED parseVars
    /\ UNCHANGED runVars

\* runRebuildPositions archives the whole store and loads no index
RebuildArchiveAll ==
    /\ importer = "rebuild-positions"
    /\ pc = "start"
    /\ pc' = "events"
    /\ ledger' = archiveAllPages(ledger)
    /\ UNCHANGED <<importer, contract, events, positions>>
    /\ UNCHANGED parseVars
    /\ UNCHANGED runVars

RebuildNext ==
    \/ ArchiveExisting
    \/ LoadManualIndex
    \/ ApiLoadManualIndex
    \/ ApiArchiveExisting
    \/ RebuildArchiveAll
    \/ RobinhoodNext
    \/ PublicCsvNext
    \/ FidelityNext
    \/ ApiNext

SpecRebuild == RebuildInit /\ [][RebuildNext]_vars

\* the index holds the strategy and the tags of a page under its exact key
IndexHolds(page) ==
    LET k == manualKeyForPosition(page.account, page.contractKey, page.tradeDate)
    IN  /\ k \in DOMAIN manualIndex
        /\ page.strategy # "null" => manualIndex[k].strategy = page.strategy
        /\ \A i \in 1 .. Len(page.tags) :
            \E j \in 1 .. Len(manualIndex[k].tags) : manualIndex[k].tags[j] = page.tags[i]

\* C18: in every importer that archives and recreates the rows of a source
\* the manual index is read before any of these rows is archived: once the
\* row that was live at the start is archived, and from then on, the index
\* holds its strategy and tags.
C18_IndexReadBeforeArchive ==
    (importer \in CsvImporters \cup ApiImporters /\ ledger # << >> /\ ledger[1] = [PreviousPage EXCEPT !.archived = TRUE])
        => IndexHolds(ledger[1])

\* rows the running rebuild has created beside the row it found
RegeneratedRows ==
    { i \in 2 .. Len(ledger) :
        /\ ~ledger[i].archived
        /\ ledger[i].broker = RebuildBroker
        /\ manualKeyForPosition(ledger[i].account, ledger[i].contractKey, ledger[i].tradeDate)
            = manualKeyForPosition(ledger[1].account, ledger[1].contractKey,
                                   ledger[1].tradeDate) }

\* C19: after a rebuild the regenerated row with the manual key of a row
\* that carried a strategy or tags carries that strategy and those tags.
C19_RebuildRestoresManualFields ==
    (importer \in CsvImporters \cup ApiImporters /\ pc = "done" /\ ledger # << >>
        /\ ledger[1] = [PreviousPage EXCEPT !.archived = TRUE]) =>
        \A i \in RegeneratedRows :
            /\ ledger[i].strategy = ledger[1].strategy
            /\ ledger[i].tags = ledger[1].tags

(***************************************************************************)
(* The manual index runImportPublicApi loads from a store of several rows  *)
(* of broker Public that share a contract.                                 *)
(***************************************************************************)
ManualStrategies == {"null", "Swing", "Income"}

ManualTags == {<< >>, <<"earnings">>, <<"hedge">>, <<"hedge", "earnings">>}

ManualPages(dates, archivedFlags) ==
    { [ExistingPublicPage EXCEPT
            !.tradeDate = d, !.strategy = s, !.tags = t, !.archived = a] :
        d \in dates, s \in ManualStrategies, t \in ManualTags, a \in archivedFlags }

ManualStores ==
    { <<p, q>> : p \in ManualPages({1, MaxCsvDate}, {FALSE}),
                 q \in ManualPages({1, MaxCsvDate}, {FALSE}) }
    \cup { <<p, q, r>> : p \in ManualPages({1}, BOOLEAN),
                         q \in ManualPages({1}, {FALSE}),
                         r \in ManualPages({1}, {FALSE}) }

ManualIndexInit ==
    /\ importer = "import-public-api"
    /\ pc = "start"
    /\ contract = StockContract
    /\ events = << >>
    /\ positions = EmptyMap
    /\ ledger \in ManualStores
    /\ raw = << >>
    /\ parsed = << >>
    /\ manualIndex = EmptyMap
    /\ env = DefaultEnv
    /\ calls = << >>

SpecManualIndex == ManualIndexInit /\ [][ApiLoadManualIndex \/ ApiArchiveExisting]_vars

\* the pages the loader stored under key k, in query order
StoredUnder(k) ==
    SelectSeq(ledger,
        LAMBDA page :
            /\ ~page.archived
            /\ page.broker = "Public"
            /\ (page.strategy # "null" \/ page.tags # << >>)
            /\ k \in {manualKeyForPosition(page.account, page.contractKey, page.tradeDate),
                      manualKeyForPositionLoose(page.account, page.contractKey)})

TagSet(tags) == {tags[i] : i \in 1 .. Len(tags)}

\* the first strategy that is set, in insertion order
FirstStrategy(pages) ==
    LET set == {i \in 1 .. Len(pages) : pages[i].strategy # "null"}
    IN  IF set = {} THEN "null"
        ELSE pages[CHOOSE i \in set : \A j \in set : i <= j].strategy

\* C20: an index entry that several manual entries were merged into holds
\* the set union of their tags, without duplicates, and the first non-null
\* strategy in insertion order; merging an entry with itself changes nothing.
C20_MergeUnionsTagsFirstStrategy ==
    (importer = "import-public-api" /\ pc = "indexed") =>
        \A k \in DOMAIN manualIndex :
            LET entry == manualIndex[k]
                pages == StoredUnder(k)
            IN  /\ pages # << >>
                /\ TagSet(entry.tags) = UNION {TagSet(pages[i].tags) : i \in 1 .. Len(pages)}
                /\ Cardinality(TagSet(entry.tags)) = Len(entry.tags)
                /\ entry.strategy = FirstStrategy(pages)
                /\ mergeManual(entry, entry) = entry

\* two rows of one open date, the first with tags hedge, earnings and no
\* strategy, the second with strategy Income and tag earnings, are merged
C20_Witness ==
    /\ importer = "import-public-api"
    /\ pc = "indexed"
    /\ Len(ledger) = 2
    /\ ledger[1].tradeDate = 1 /\ ledger[2].tradeDate = 1
    /\ ledger[1].strategy = "null" /\ ledger[1].tags = <<"hedge", "earnings">>
    /\ ledger[2].strategy = "Income" /\ ledger[2].tags = <<"earnings">>
    /\ manualIndex[manualKeyForPosition("Brokerage Account", "AAPL", 1)]
        = [strategy |-> "Income", tags |-> <<"hedge", "earnings">>]
    /\ manualIndex[manualKeyForPositionLoose("Brokerage Account", "AAPL")]
        = [strategy |-> "Income", tags |-> <<"hedge", "earnings">>]

(***************************************************************************)
(* runImportPublicApi from its first store call to its last on a store of  *)
(* two tagged rows of broker Public that share a contract.                 *)
(***************************************************************************)
CarryStores ==
    { <<p, q>> :
        p \in { [ExistingPublicPage EXCEPT !.tradeDate = 1, !.tags = t] :
                    t \in {<<"earnings">>, <<"hedge", "earnings">>} },
        q \in { [ExistingPublicPage EXCEPT !.tradeDate = d, !.tags = t] :
                    d \in {1, MaxCsvDate}, t \in {<< >>, <<"hedge">>} } }

CarryInit ==
    /\ importer = "import-public-api"
    /\ pc = "start"
    /\ contract = StockContract
    /\ events = << >>
    /\ positions = EmptyMap
    /\ ledger \in CarryStores
    /\ raw = << >>
    /\ parsed = << >>
    /\ manualIndex = EmptyMap
    /\ env = DefaultEnv
    /\ calls = << >>

CarryNext ==
    \/ ApiLoadManualIndex
    \/ ApiArchiveExisting
    \/ ApiApplyActivity
    \/ PublicApiEnsureOpen

SpecManualCarry == CarryInit /\ [][CarryNext]_vars

\* rows the running import has created beside the rows it found
CarriedRows == { i \in 3 .. Len(ledger) : ~ledger[i].archived /\ ledger[i].broker = "Public" }

\* the index holds an exact entry and a loose entry for row i
BothEntries(i) ==
    /\ manualKeyForPosition(ledger[i].account, ledger[i].contractKey, ledger[i].tradeDate)
        \in DOMAIN manualIndex
    /\ manualKeyForPositionLoose(ledger[i].account, ledger[i].contractKey)
        \in DOMAIN manualIndex

\* C21: a regenerated record for which the index holds an exact-date entry
\* and a same-contract loose entry carries the union of the tags of both.
C21_TagsUnionOfExactAndLoose ==
    (importer = "import-public-api" /\ pc \in {"events", "done"}) =>
        \A i \in CarriedRows :
            BothEntries(i) =>
                TagSet(ledger[i].tags) =
                    TagSet(manualIndex[manualKeyForPosition(ledger[i].account,
                               ledger[i].contractKey, ledger[i].tradeDate)].tags)
                    \cup TagSet(manualIndex[manualKeyForPositionLoose(ledger[i].account,
                               ledger[i].contractKey)].tags)

(***************************************************************************)
(* reconcile-fidelity-hybrid invoked a second time on the store the first  *)
(* run left.  The second invocation is marked in the call log.             *)
(***************************************************************************)
\* `npm run reconcile:fidelity:hybrid` once more, nothing else changed
HybridRunAgain ==
    /\ importer = "reconcile-fidelity-hybrid"
    /\ pc = "reconciled"
    /\ SecondRunStart = 0
    /\ pc' = "rows"
    /\ calls' = Append(calls, RunMarker)
    /\ UNCHANGED <<importer, contract, events, positions, ledger>>
    /\ UNCHANGED parseVars
    /\ UNCHANGED <<manualIndex, env>>

SpecHybridTwice == HybridInit /\ [][HybridNext \/ HybridRunAgain]_vars

\* C22: a second run of a non-rebuild reconciliation on unchanged source
\* data and on the store the first run left issues no create call and no
\* archive call.
C22_SecondRunCreatesAndArchivesNothing ==
    SecondRunStart > 0 =>
        \A i \in SecondRunStart + 1 .. Len(calls) : calls[i].op \notin {"create", "archive"}

(***************************************************************************)
(* A rebuild invoked a second time on the store the first run left, with   *)
(* the same source rows and the same holdings.  raw keeps the records the  *)
(* first run left live; parsed holds the rows the second run has read.     *)
(***************************************************************************)
LiveRows(pages) == SelectSeq(pages, LAMBDA page : ~page.archived)

RebuildTwiceInit ==
    /\ importer \in CsvImporters \cup ApiImporters
    /\ pc = "start"
    /\ contract = StockContract
    /\ events = << >>
    /\ positions = EmptyMap
    /\ ledger = <<PreviousPage>>
    /\ raw = << >>
    /\ parsed = << >>
    /\ manualIndex = EmptyMap
    /\ env \in {[dryRun |-> FALSE, forceExpireClose |-> FALSE, holdings |-> h] :
                    h \in IF importer = "import-public-api" THEN ApiHoldings ELSE {{}}}
    /\ calls = << >>

\* the longest source a second run is followed for
MaxReplay == 2

\* the same command once more: a new process with empty locals
RebuildRunAgain ==
    /\ FirstRun
    /\ Len(events) <= MaxReplay
    /\ importer \in CsvImporters \cup ApiImporters
    /\ pc = "done"
    /\ pc' = "start"
    /\ calls' = Append(calls, RunMarker)
    /\ positions' = EmptyMap
    /\ manualIndex' = EmptyMap
    /\ raw' = LiveRows(ledger)
    /\ parsed' = << >>
    /\ UNCHANGED <<importer, contract, events, ledger, env>>

\* `for (const e of events)` of the second run, on the next row of the source
RobinhoodReplayEvent ==
    /\ ~FirstRun
    /\ importer = "import-robinhood"
    /\ pc = "events"
    /\ Len(parsed) < Len(events)
    /\ LET e == events[Len(parsed) + 1]
           key == StateKey(e)
           p == IF key \in DOMAIN positions THEN positions[key]
                ELSE NewPositionRobinhood(e)
       IN  /\ positions' = MapSet(positions, key, upsertPositionFromEventRobinhood(p, e))
           /\ parsed' = Append(parsed, e)
    /\ UNCHANGED <<importer, pc, contract, events, ledger, raw>>
    /\ UNCHANGED runVars

PublicCsvReplayEvent ==
    /\ ~FirstRun
    /\ importer = "import-public-csv"
    /\ pc = "events"
    /\ Len(parsed) < Len(events)
    /\ LET e == events[Len(parsed) + 1]
           key == StateKey(e)
           p == IF key \in DOMAIN positions THEN positions[key]
                ELSE NewPositionCsv(e)
       IN  /\ positions' = MapSet(positions, key, upsertPositionFromEvent(p, e))
           /\ parsed' = Append(parsed, e)
    /\ UNCHANGED <<importer, pc, contract, events, ledger, raw>>
    /\ UNCHANGED runVars

FidelityReplayEvent ==
    /\ ~FirstRun
    /\ importer = "import-fidelity-csv-history"
    /\ pc = "events"
    /\ Len(parsed) < Len(events)
    /\ LET e == events[Len(parsed) + 1]
           key == StateKey(e)
           p == IF key \in DOMAIN positions THEN positions[key]
                ELSE NewPositionFidelity(e)
       IN  /\ positions' = MapSet(positions, key, FidelityLoopBody(p, e))
           /\ parsed' = Append(parsed, e)
    /\ UNCHANGED <<importer, pc, contract, events, ledger, raw>>
    /\ UNCHANGED runVars

\* `for (const activity of sorted)` of the second run
ApiReplayActivity ==
    /\ ~FirstRun
    /\ importer \in ApiImporters
    /\ pc = "events"
    /\ Len(parsed) < Len(events)
    /\ LET a == events[Len(parsed) + 1]
           multiplier == IF isOptionContract(a.contractKey) THEN 100 ELSE 1
           held == a.contractKey \in DOMAIN positions
       IN  /\ parsed' = Append(parsed, a)
           /\ CASE a.action = "BUY" /\ ~held -> ApiBuyCreates(a, multiplier)
                [] a.action = "BUY" /\ held ->
                       ApiBuyAdds(positions[a.contractKey], a, multiplier)
                [] a.action = "SELL" /\ held ->
                       ApiSell(positions[a.contractKey], a, multiplier)
                [] OTHER -> UNCHANGED <<positions, ledger>>
    /\ UNCHANGED <<importer, pc, contract, events, raw>>
    /\ UNCHANGED runVars

RebuildTwiceNext ==
    \/ RebuildNext
    \/ RebuildRunAgain
    \/ RobinhoodReplayEvent
    \/ PublicCsvReplayEvent
    \/ FidelityReplayEvent
    \/ ApiReplayActivity

SpecRebuildTwice == RebuildTwiceInit /\ [][RebuildTwiceNext]_vars

SecondRebuildDone ==
    /\ importer \in CsvImporters \cup ApiImporters
    /\ ~FirstRun
    /\ pc = "done"

Reopens ==
    \E i \in 1 .. Len(ledger) :
        /\ i <= Len(ledger')
        /\ ledger[i].status = "CLOSED"
        /\ ledger'[i].status = "OPEN"

\* C24: no ledger record goes from CLOSED back to OPEN, in the run that
\* closed it or in a later run; a position bought again after it was
\* closed is a newly created record.
C24_ClosedNeverReopened == [][~Reopens]_vars

\* a position of the live feed was closed and bought again: the first
\* record stays CLOSED and a second record is OPEN for the same contract
C24_Witness ==
    /\ importer \in ApiImporters
    /\ Len(ledger) >= 3
    /\ \E i \in 2 .. Len(ledger) - 1 :
        /\ ledger[i].status = "CLOSED"
        /\ ledger[i + 1].status = "OPEN"
        /\ ledger[i + 1].contractKey = ledger[i].contractKey
        /\ ledger[i + 1].broker = ledger[i].broker
        /\ ledger[i].tradeDate < ledger[i + 1].tradeDate

(***************************************************************************)
(* The archive calls one by one.  The store answers a call on a page that  *)
(* is archived already with "archived" (Can't edit block that is           *)
(* archived), any call with "other" when it fails for another reason, and  *)
(* "ok" otherwise.  A query may still list an archived page as live.       *)
(* positions holds the listing and the cursor of the loop over it.         *)
(***************************************************************************)
ArchiveCommands ==
    {"rebuild-positions", "import-robinhood", "import-public-csv",
     "import-fidelity-csv-history", "import-public-api", "reconcile-open"}

ArchiveBrokers == {"Public", "Public (CSV)", "Fidelity (CSV)", "Robinhood (CSV)"}

ArchiveStores ==
    { <<p, q>> :
        p \in { [ExistingPublicPage EXCEPT !.broker = b, !.archived = a] :
                    b \in ArchiveBrokers, a \in BOOLEAN },
        q \in { [ExistingPublicPage EXCEPT !.broker = b, !.archived = a, !.status = s] :
                    b \in ArchiveBrokers, a \in BOOLEAN, s \in {"OPEN", "CLOSED"} } }

ArchiveInit ==
    /\ importer \in ArchiveCommands
    /\ pc = "start"
    /\ contract = StockContract
    /\ events = << >>
    /\ positions = EmptyMap
    /\ ledger \in ArchiveStores
    /\ raw = << >>
    /\ parsed = << >>
    /\ manualIndex = EmptyMap
    /\ env = DefaultEnv
    /\ calls = << >>

\* client.databases.query: page.archived as the result reports it
QueryPages ==
    /\ importer \in ArchiveCommands
    /\ pc = "start"
    /\ pc' = "archiving"
    /\ \E reported \in [1 .. Len(ledger) -> BOOLEAN] :
        /\ \A i \in 1 .. Len(ledger) : reported[i] => ledger[i].archived
        /\ positions' = [reported |-> reported, cursor |-> 1]
    /\ UNCHANGED <<importer, contract, events, ledger>>
    /\ UNCHANGED parseVars
    /\ UNCHANGED runVars

\* upper === "PUBLIC" || upper === "ROBINHOOD" || upper === "FIDELITY"
supportedBroker(name) == name \in {"Public", "PUBLIC", "Robinhood", "ROBINHOOD", "Fidelity", "FIDELITY"}

\* the page is one the loop of this command issues an archive call for
ArchiveSelects(page) ==
    CASE importer = "rebuild-positions" ->
            ~(\/ startsWith(page.broker, "Fidelity")
              \/ startsWith(page.broker, "Public (PDF)")
              \/ startsWith(page.broker, "Public (History)"))
      [] importer \in {"import-robinhood", "import-public-csv"} ->
            startsWith(page.broker, RebuildBroker)
      [] importer \in {"import-fidelity-csv-history", "import-public-api"} ->
            page.broker = RebuildBroker
      [] OTHER -> statusUpper(page.status) = "OPEN" /\ supportedBroker(page.broker)

\* the call is inside a try whose catch returns on an archived answer
CatchesArchived == importer # "rebuild-positions"

\* client.pages.update({ page_id, archived: true }) and what the caller
\* does with the answer
ArchiveCall ==
    /\ importer \in ArchiveCommands
    /\ pc = "archiving"
    /\ positions.cursor <= Len(ledger)
    /\ LET i == positions.cursor
       IN  IF positions.reported[i] \/ ~ArchiveSelects(ledger[i])
           THEN /\ positions' = [positions EXCEPT !.cursor = i + 1]
                /\ UNCHANGED <<pc, ledger, calls>>
           ELSE \E answer \in (IF ledger[i].archived THEN {"archived"} ELSE {"ok", "other"}) :
                    /\ calls' = Append(calls, [op |-> "archive", pageId |-> i,
                                               tradeDate |-> NoDate, answer |-> answer])
                    /\ ledger' = IF answer = "ok" THEN [ledger EXCEPT ![i].archived = TRUE]
                                 ELSE ledger
                    /\ IF answer = "ok" \/ (answer = "archived" /\ CatchesArchived)
                       THEN /\ positions' = [positions EXCEPT !.cursor = i + 1]
                            /\ pc' = pc
                       ELSE /\ positions' = positions
                            /\ pc' = "failed"
    /\ UNCHANGED <<importer, contract, events>>
    /\ UNCHANGED parseVars
    /\ UNCHANGED <<manualIndex, env>>

\* the loop over the listing is over
ArchiveReturn ==
    /\ importer \in ArchiveCommands
    /\ pc = "archiving"
    /\ positions.cursor > Len(ledger)
    /\ pc' = "archived"
    /\ UNCHANGED <<importer, contract, events, positions, ledger>>
    /\ UNCHANGED parseVars
    /\ UNCHANGED runVars

ArchiveNext == QueryPages \/ ArchiveCall \/ ArchiveReturn

SpecArchive == ArchiveInit /\ [][ArchiveNext]_vars

\* C25: an archive call the store answers with already archived / is
\* archived is a successful no-op on every archive path: no run fails on
\* that answer.
C25_ArchivedAnswerNeverFails ==
    (importer \in ArchiveCommands /\ pc = "failed") => Last(calls).answer # "archived"

(***************************************************************************)
(* runReconcileFidelityHybrid on two closed Fidelity (CSV) rows that share *)
(* one closed live row as their candidate.                                 *)
(***************************************************************************)
SharedCsvPages ==
    HybridPages("Fidelity (CSV)", "TAXABLE FUN", ReconcileCsvContract.contractKey,
                {NoDate, 1}, {NoDate}, HybridQtys)

SharedStores ==
    { <<csv1, csv2, api>> :
        csv1 \in {p \in SharedCsvPages : p.status = "CLOSED"},
        csv2 \in {p \in SharedCsvPages : p.status = "CLOSED"},
        api \in {p \in HybridPages("Fidelity", "Taxable (Fun)", ReconcileOccKey,
                                   {NoDate, 1}, {NoDate}, HybridQtys) : p.status = "CLOSED"} }

HybridSharedInit ==
    /\ importer = "reconcile-fidelity-hybrid"
    /\ pc = "rows"
    /\ contract = ReconcileCsvContract
    /\ events = << >>
    /\ positions = EmptyMap
    /\ ledger \in SharedStores
    /\ raw = << >>
    /\ parsed = << >>
    /\ manualIndex = EmptyMap
    /\ env \in {[dryRun |-> d, cutoff |-> HybridCutoff] : d \in BOOLEAN}
    /\ calls = << >>

SpecHybridShared == HybridSharedInit /\ [][HybridNext]_vars

\* the page of call i was archived by an earlier call of the run
ArchivedBefore(i) ==
    \E j \in 1 .. i - 1 : calls[j].op = "archive" /\ calls[j].pageId = calls[i].pageId

\* the store answers call i with an error that is not the already-archived
\* answer to an archive call: here, the refusal to edit an archived page
OtherStoreError(i) == calls[i].op = "update" /\ ArchivedBefore(i)

\* C26: a store error other than the already-archived answer to an archive
\* call ends the run: no write call follows it.
C26_OtherErrorEndsRun ==
    importer = "reconcile-fidelity-hybrid" =>
        \A i \in 1 .. Len(calls) : OtherStoreError(i) => i = Len(calls)

(***************************************************************************)
(* reconcile-open: runSnaptradeReconcileOpen brings the OPEN rows of the   *)
(* store in line with the live holdings.  events holds the holdings of the *)
(* snapshot in the order the accounts return them, raw the pages the store *)
(* held when the command started, positions the locals of the run.         *)
(***************************************************************************)
OpenBrokers == {"Public", "Fidelity", "Schwab"}

OpenKeys == {"AAPL", "AAPL 250117C00200000"}

\* an existing row of the store, with the strategy and tags its user gave it
OpenStorePage(broker, contractKey, status, archived) ==
    [ticker |-> "AAPL",
     contractKey |-> contractKey,
     status |-> status,
     qty |-> R(2),
     fillPrice |-> R(100),
     side |-> "null",
     tradeType |-> inferTradeTypeFromContract(contractKey, "AAPL"),
     tradeDate |-> 1,
     lastAddDate |-> NoDate,
     broker |-> broker,
     account |-> "Brokerage Account",
     strategy |-> "Income",
     tags |-> <<"hedge">>,
     closeDate |-> NoDate,
     closePrice |-> NullNumber,
     plAtClose |-> NullNumber,
     archived |-> archived]

OpenStorePages ==
    {OpenStorePage(b, k, s, a) :
        b \in OpenBrokers, k \in OpenKeys, s \in {"OPEN", "CLOSED"}, a \in BOOLEAN}

OpenStores ==
    {<<p>> : p \in OpenStorePages} \cup {<<p, q>> : p \in OpenStorePages, q \in OpenStorePages}

\* a holding of getAccountPositions, with the brokerage and the name of its
\* account; units are positive and a symbol occurs once per account
Holding(broker, symbolKey) ==
    [broker |-> broker,
     account |-> "Brokerage Account",
     ticker |-> "AAPL",
     symbol_key |-> symbolKey,
     units |-> R(5),
     price |-> R(120)]

Holdings == {Holding(b, k) : b \in OpenBrokers, k \in OpenKeys}

\* one account per brokerage: the holdings of a snapshot differ in brokerage
\* or in symbol
Snapshots ==
    {<< >>} \cup {<<h>> : h \in Holdings}
        \cup {pair \in {<<h, g>> : h \in Holdings, g \in Holdings} : pair[1] # pair[2]}

\* `${broker}::${account}::${normalizeContractKey(contractKey)}`, the fields
\* kept apart; normalizeContractKey trims, drops a leading sign, removes the
\* whitespace and upper-cases
makeKey(broker, account, contractKey) ==
    <<broker, account,
      CASE contractKey = "AAPL 250117C00200000" -> "AAPL250117C00200000"
        [] OTHER -> contractKey>>

\* listExistingOpenRows: rows.set(key, ...) page after page, so that a later
\* page of the same key replaces the earlier one
RECURSIVE listExistingOpenRows(_, _)
listExistingOpenRows(pages, n) ==
    IF n = 0 THEN EmptyMap
    ELSE LET rows == listExistingOpenRows(pages, n - 1)
             page == pages[n]
         IN  IF /\ ~page.archived
                /\ statusUpper(page.status) = "OPEN"
                /\ supportedBroker(page.broker)
                /\ page.account # ""
                /\ page.contractKey # ""
             THEN MapSet(rows, makeKey(page.broker, page.account, page.contractKey), n)
             ELSE rows

ReconcileOpenInit ==
    /\ importer = "reconcile-open"
    /\ pc = "start"
    /\ contract = StockContract
    /\ events \in Snapshots
    /\ positions = EmptyMap
    /\ ledger \in OpenStores
    /\ raw = ledger
    /\ parsed = << >>
    /\ manualIndex = EmptyMap
    /\ env = DefaultEnv
    /\ calls = << >>

\* `const existing = await listExistingOpenRows(); const seen = new Set()`
ReconcileOpenList ==
    /\ importer = "reconcile-open"
    /\ pc = "start"
    /\ pc' = "holdings"
    /\ positions' =
            [existing |-> listExistingOpenRows(ledger, Len(ledger)),
             seen |-> {},
             cursor |-> 1]
    /\ UNCHANGED <<importer, contract, events, ledger, raw, parsed, manualIndex, env, calls>>

\* the dates the orders of the account give for the contract: the first buy
\* and the last buy, or none when the lookup failed or found no buy
OrderMetas ==
    {[open |-> NoDate, last |-> NoDate], [open |-> 1, last |-> 1], [open |-> 1, last |-> 2]}

\* one turn of `for (const p of positions)`; the accounts of a brokerage
\* that is not supported are skipped with their holdings
ReconcileOpenHolding ==
    /\ importer = "reconcile-open"
    /\ pc = "holdings"
    /\ positions.cursor <= Len(events)
    /\ LET p == events[positions.cursor]
           key == makeKey(p.broker, p.account, p.symbol_key)
           avgPrice == Norm(MathRound(RMul(p.price, R(100))), 100)
       IN  IF ~supportedBroker(p.broker)
           THEN /\ positions' = [positions EXCEPT !.cursor = @ + 1]
                /\ UNCHANGED <<ledger, calls>>
           ELSE \E meta \in OrderMetas :
                LET lastAddDate ==
                        IF meta.open # NoDate /\ meta.last # NoDate /\ meta.last # meta.open
                        THEN meta.last ELSE NoDate
                IN  /\ positions' =
                            [positions EXCEPT !.cursor = @ + 1, !.seen = @ \cup {key}]
                    /\ IF key \notin DOMAIN positions.existing
                       THEN /\ ledger' =
                                    Append(ledger,
                                        createPositionPage(
                                            [ticker |-> p.ticker,
                                             contractKey |-> p.symbol_key,
                                             qty |-> p.units,
                                             avgPrice |-> avgPrice,
                                             side |-> "null",
                                             tradeType |-> "null",
                                             openDate |-> meta.open,
                                             lastAddDate |-> lastAddDate,
                                             broker |-> p.broker,
                                             account |-> p.account,
                                             strategy |-> "undefined",
                                             tags |-> << >>]))
                            /\ calls' =
                                    Append(calls,
                                        [op |-> "create", pageId |-> Len(ledger) + 1,
                                         tradeDate |-> NoDate])
                       ELSE /\ ledger' =
                                    [ledger EXCEPT ![positions.existing[key]] =
                                        updatePositionPage(@,
                                            [ticker |-> p.ticker,
                                             contractKey |-> p.symbol_key,
                                             qty |-> p.units,
                                             avgPrice |-> avgPrice,
                                             side |-> "null",
                                             tradeType |-> "null",
                                             status |-> "OPEN",
                                             lastAddDate |-> lastAddDate,
                                             closeDate |-> NoDate,
                                             closePrice |-> NullNumber,
                                             realizedPl |-> NullNumber])]
                            /\ calls' =
                                    Append(calls,
                                        [op |-> "update", pageId |-> positions.existing[key],
                                         tradeDate |-> NoDate])
    /\ UNCHANGED <<importer, pc, contract, events, raw, parsed, manualIndex, env>>

\* the rows of `existing` whose key no holding had
StaleRows == {positions.existing[k] : k \in DOMAIN positions.existing \ positions.seen}

\* `for (const [key, row] of existing.entries())`: archivePage for every
\* row that was not seen, then the return
ReconcileOpenArchive ==
    /\ importer = "reconcile-open"
    /\ pc = "holdings"
    /\ positions.cursor > Len(events)
    /\ pc' = "done"
    /\ ledger' =
            [i \in 1 .. Len(ledger) |->
                IF i \in StaleRows THEN [ledger[i] EXCEPT !.archived = TRUE] ELSE ledger[i]]
    /\ calls' =
            calls \o
                [j \in 1 .. Cardinality(StaleRows) |->
                    [op |-> "archive",
                     pageId |-> CHOOSE i \in StaleRows :
                                    Cardinality({x \in StaleRows : x < i}) = j - 1,
                     tradeDate |-> NoDate]]
    /\ UNCHANGED <<importer, contract, events, positions, raw, parsed, manualIndex, env>>

ReconcileOpenNext == ReconcileOpenList \/ ReconcileOpenHolding \/ ReconcileOpenArchive

SpecReconcileOpen == ReconcileOpenInit /\ [][ReconcileOpenNext]_vars

\* the brokers the command is documented to reconcile
DocumentedBroker(name) == name \in {"Public", "PUBLIC", "Robinhood", "ROBINHOOD"}

\* the live OPEN rows of the store that stand for the holding
RowsOfHolding(h) ==
    {i \in 1 .. Len(ledger) :
        /\ ~ledger[i].archived
        /\ statusUpper(ledger[i].status) = "OPEN"
        /\ makeKey(ledger[i].broker, ledger[i].account, ledger[i].contractKey)
                = makeKey(h.broker, h.account, h.symbol_key)}

\* C29: when runSnaptradeReconcileOpen has completed, no record of a broker
\* other than Public and Robinhood was created, updated or archived, every
\* live holding of those brokers has exactly one non-archived OPEN record,
\* and every non-archived OPEN record of those brokers has a live holding
C29_ReconcilesPublicAndRobinhoodOnly ==
    (importer = "reconcile-open" /\ pc = "done") =>
        /\ \A i \in 1 .. Len(ledger) :
                ~DocumentedBroker(ledger[i].broker) => (i <= Len(raw) /\ ledger[i] = raw[i])
        /\ \A n \in 1 .. Len(events) :
                DocumentedBroker(events[n].broker) =>
                    Cardinality(RowsOfHolding(events[n])) = 1
        /\ \A i \in 1 .. Len(ledger) :
                (/\ DocumentedBroker(ledger[i].broker)
                 /\ ~ledger[i].archived
                 /\ statusUpper(ledger[i].status) = "OPEN")
                    => \E n \in 1 .. Len(events) : i \in RowsOfHolding(events[n])

(***************************************************************************)
(* Update calls on rows that carry the strategy and tags of their user:    *)
(* updatePositionPage in reconcile-open, updateTradePage in backfill and   *)
(* the open-date update of the hybrid reconcile.                           *)
(***************************************************************************)
\* properties written by updateTradePage for an activity of a stock; the
\* trade date only when the activity has one
updateTradePage(page, activity, account) ==
    [page EXCEPT
        !.ticker = activity.symbol,
        !.side = activity.type,
        !.qty = activity.units,
        !.fillPrice = activity.price,
        !.tradeDate = IF activity.trade_date # NoDate THEN activity.trade_date ELSE @,
        !.broker = account.brokerage,
        !.account = account.name,
        !.tradeType = inferTradeTypeFromContract(activity.symbol, activity.symbol)]

\* the account of the activities
BackfillAccount == [brokerage |-> "Public", name |-> "Brokerage Account"]

\* an order of the account; page is the row findPageIdBySnapTradeId or
\* findPageIdByOrderId returns for it, 0 when there is none
Activities ==
    {[type |-> t, symbol |-> "AAPL", units |-> R(3), price |-> R(110),
      trade_date |-> d, page |-> p] :
        t \in {"BUY", "SELL"}, d \in {NoDate, 2}, p \in 0 .. 2}

BackfillStores ==
    {s \in OpenStores : \A i \in 1 .. Len(s) : s[i].broker = "Public" /\ ~s[i].archived}

\* sorted by trade date, an activity without one first
BackfillOrders ==
    {<<a>> : a \in Activities}
        \cup {pair \in {<<a, b>> : a \in Activities, b \in Activities} :
                pair[1].trade_date <= pair[2].trade_date}

BackfillInit ==
    /\ importer = "backfill"
    /\ pc = "activities"
    /\ contract = StockContract
    /\ events \in BackfillOrders
    /\ positions = [cursor |-> 1]
    /\ ledger \in {s \in BackfillStores : \A n \in 1 .. Len(events) : events[n].page <= Len(s)}
    /\ raw = ledger
    /\ parsed = << >>
    /\ manualIndex = EmptyMap
    /\ env = DefaultEnv
    /\ calls = << >>

\* one turn of `for (const activity of sorted)` in runBackfill
BackfillActivity ==
    /\ importer = "backfill"
    /\ pc = "activities"
    /\ positions.cursor <= Len(events)
    /\ LET activity == events[positions.cursor]
       IN  IF activity.page = 0
           THEN UNCHANGED <<ledger, calls>>
           ELSE /\ ledger' =
                        [ledger EXCEPT ![activity.page] =
                            updateTradePage(@, activity, BackfillAccount)]
                /\ calls' =
                        Append(calls,
                            [op |-> "update", pageId |-> activity.page,
                             tradeDate |-> activity.trade_date])
    /\ positions' = [positions EXCEPT !.cursor = @ + 1]
    /\ UNCHANGED <<importer, pc, contract, events, raw, parsed, manualIndex, env>>

\* the rows of the hybrid reconcile with a strategy and tags set by the user
UserTagged(pages) ==
    [i \in 1 .. Len(pages) |-> [pages[i] EXCEPT !.strategy = "Income", !.tags = <<"hedge">>]]

UserFieldsInit ==
    \/ ReconcileOpenInit
    \/ BackfillInit
    \/ /\ importer = "reconcile-fidelity-hybrid"
       /\ pc = "rows"
       /\ contract = ReconcileCsvContract
       /\ events = << >>
       /\ positions = EmptyMap
       /\ ledger \in {UserTagged(s) : s \in SharedStores}
       /\ raw = ledger
       /\ parsed = << >>
       /\ manualIndex = EmptyMap
       /\ env = [dryRun |-> FALSE, cutoff |-> HybridCutoff]
       /\ calls = << >>

UserFieldsNext == ReconcileOpenNext \/ BackfillActivity \/ HybridNext

SpecUserFields == UserFieldsInit /\ [][UserFieldsNext]_vars

\* C27: no step of a command changes the Strategy or the Tags of a record
\* that exists in the store: the update calls on it (quantity, price,
\* status, dates, P/L) leave both as the user set them
C27_UpdatesKeepStrategyAndTags ==
    [][\A i \in 1 .. Len(ledger) :
            /\ i <= Len(ledger')
            /\ ledger'[i].strategy = ledger[i].strategy
            /\ ledger'[i].tags = ledger[i].tags]_vars

\* an update call changed a record that carries the strategy and the tags
\* of its user
C27_Witness ==
    \E i \in 1 .. Len(calls) :
        /\ calls[i].op = "update"
        /\ calls[i].pageId <= Len(raw)
        /\ ledger[calls[i].pageId] # raw[calls[i].pageId]
        /\ ledger[calls[i].pageId].strategy = "Income"
        /\ ledger[calls[i].pageId].tags = <<"hedge">>

(***************************************************************************)
(* How the file importers build their events array from the rows of the    *)
(* source files.  raw holds the files, a row being the dedupe key of the   *)
(* event it parses to (a BUY of one unit); events the array the loop over  *)
(* the positions walks; parsed the events applied; positions the quantity  *)
(* bought per key.                                                         *)
(***************************************************************************)
DedupeKeys == {1, 2}

\* the importers that read every file of a folder, and those that read one
FolderImporters == {"import-robinhood", "import-fidelity-csv-history", "import-public-pdf"}

FileImporters == {"import-public-csv", "import-public-history"}

RECURSIVE RowsUpTo(_)
RowsUpTo(n) ==
    IF n = 0 THEN {<< >>}
    ELSE RowsUpTo(n - 1)
            \cup {Append(f, k) : f \in {g \in RowsUpTo(n - 1) : Len(g) = n - 1}, k \in DedupeKeys}

SourceFiles == RowsUpTo(MaxRawLen)

CountInFile(file, key) == Cardinality({i \in 1 .. Len(file) : file[i] = key})

RECURSIVE MaxCountInFiles(_, _)
MaxCountInFiles(files, key) ==
    IF files = << >> THEN 0
    ELSE Max(CountInFile(files[1], key), MaxCountInFiles(Tail(files), key))

\* how many times the events array holds the event of the key
\*   import-robinhood: perFileCount, the largest count of a file kept
\*   import-public-csv: eventCountByKey of the one file
\*   the others: eventMap.set / dedupedMap.set / uniq.set, one event per key
eventCountByKey(files, key) ==
    CASE importer = "import-robinhood" -> MaxCountInFiles(files, key)
      [] importer = "import-public-csv" -> CountInFile(files[1], key)
      [] OTHER -> IF \E n \in 1 .. Len(files) : CountInFile(files[n], key) > 0 THEN 1 ELSE 0

RepeatKey(key, count) == [i \in 1 .. count |-> key]

\* the events array after the sort, the events of one key side by side
RECURSIVE BuildEvents(_, _)
BuildEvents(files, keys) ==
    IF keys = {} THEN << >>
    ELSE LET key == CHOOSE k \in keys : \A other \in keys : k <= other
         IN  RepeatKey(key, eventCountByKey(files, key)) \o BuildEvents(files, keys \ {key})

DedupeInit ==
    /\ importer \in FolderImporters \cup FileImporters
    /\ pc = "files"
    /\ contract = StockContract
    /\ events = << >>
    /\ positions = [k \in DedupeKeys |-> 0]
    /\ raw \in {<<f>> : f \in SourceFiles}
                \cup IF importer \in FolderImporters
                     THEN {<<f, g>> : f \in SourceFiles, g \in SourceFiles}
                     ELSE {}
    /\ ledger = << >>
    /\ parsed = << >>
    /\ manualIndex = EmptyMap
    /\ env = DefaultEnv
    /\ calls = << >>

\* the loops over the files and their rows, and the sort
DedupeReadFiles ==
    /\ importer \in FolderImporters \cup FileImporters
    /\ pc = "files"
    /\ pc' = "apply"
    /\ events' = BuildEvents(raw, DedupeKeys)
    /\ UNCHANGED <<importer, contract, positions, ledger, raw, parsed, manualIndex, env, calls>>

\* one turn of `for (const e of events)`: the BUY adds its unit
DedupeApplyEvent ==
    /\ importer \in FolderImporters \cup FileImporters
    /\ pc = "apply"
    /\ Len(parsed) < Len(events)
    /\ LET e == events[Len(parsed) + 1]
       IN  /\ positions' = [positions EXCEPT ![e] = @ + 1]
           /\ parsed' = Append(parsed, e)
    /\ UNCHANGED <<importer, pc, contract, events, ledger, raw, manualIndex, env, calls>>

DedupeApplied ==
    /\ importer \in FolderImporters \cup FileImporters
    /\ pc = "apply"
    /\ Len(parsed) = Len(events)
    /\ pc' = "done"
    /\ UNCHANGED <<importer, contract, events, positions, ledger, raw, parsed, manualIndex, env, calls>>

DedupeNext == DedupeReadFiles \/ DedupeApplyEvent \/ DedupeApplied

SpecDedupe == DedupeInit /\ [][DedupeNext]_vars

\* one export file, or the same export present twice in the folder
OneExport == Len(raw) = 1 \/ (Len(raw) = 2 /\ raw[1] = raw[2])

\* C28: in every file importer, when the source is one export file (alone
\* or present in two copies), the number of events of a dedupe key applied
\* to the position is the number of rows of that key in the file
C28_RepeatedRowsPreserved ==
    (importer \in FolderImporters \cup FileImporters /\ pc = "done" /\ OneExport) =>
        \A key \in DedupeKeys : positions[key] = CountInFile(raw[1], key)

(***************************************************************************)
(* watch-fidelity: runWatchFidelity polls the two Fidelity folders and     *)
(* runs the pipeline when one changed.  env holds the folders on disk,     *)
(* positions the locals of the watcher, parsed the snapshots a tick has    *)
(* read and not yet compared, events the runPipeline invocations that are  *)
(* between their start and the end of their finally block, each with the   *)
(* await it stands at and the commands it has run, raw the changes seen by *)
(* the ticks that found the pipeline running.  manualIndex is not used by  *)
(* the watcher: it records, per folder, whether the last change that left  *)
(* a CSV file still waits for a run ("waiting"), has a run started after   *)
(* it ("started") or has had its importer run ("none"); ledger records the *)
(* newest signature each folder has had, since a signature holds the       *)
(* modification times of the files and a change never brings back an       *)
(* older one.                                                              *)
(***************************************************************************)
MaxSignature == 2

\* what a folder can hold: 0 is the folder without a CSV file
FolderContents == 0 .. MaxSignature

WatchedDirs == {"rawDir", "positionsDir"}

\* readCsvSnapshot: the signature of the files and their number
readCsvSnapshot(content) ==
    [signature |-> content, csvCount |-> IF content = 0 THEN 0 ELSE 1]

NoChange == [tx |-> FALSE, pos |-> FALSE]

WatchInit ==
    /\ importer = "watch-fidelity"
    /\ pc = "watching"
    /\ contract = StockContract
    /\ events = << >>
    /\ env \in {[rawDir |-> r, positionsDir |-> p] : r \in FolderContents, p \in FolderContents}
    /\ positions =
            [rawState |-> readCsvSnapshot(env.rawDir),
             posState |-> readCsvSnapshot(env.positionsDir),
             running |-> FALSE,
             pending |-> FALSE]
    /\ ledger = env
    /\ raw = NoChange
    /\ parsed = << >>
    /\ manualIndex = [d \in WatchedDirs |-> "none"]
    /\ calls = << >>

\* the user adds, replaces or removes a CSV file of one folder
FolderChange ==
    /\ importer = "watch-fidelity"
    /\ \E dir \in WatchedDirs, content \in FolderContents :
        /\ IF content = 0 THEN env[dir] # 0 ELSE content > ledger[dir]
        /\ env' = [env EXCEPT ![dir] = content]
        /\ ledger' = [ledger EXCEPT ![dir] = Max(@, content)]
        /\ manualIndex' =
                [manualIndex EXCEPT ![dir] = IF content = 0 THEN "none" ELSE "waiting"]
    /\ UNCHANGED <<importer, pc, contract, events, positions, raw, parsed, calls>>

\* a pipeline that lets every call through
PipelineBusyNever(locals) == FALSE

\* `if (running)` at the head of runPipeline
PipelineBusy(locals) == locals.running

\* runPipeline up to its first await: a call that finds the pipeline
\* running sets pending and returns; seen is what the ticks behind the call
\* found changed, frames the invocations in flight, waits the record of the
\* changes
runPipeline(locals, frames, waits, txChanged, posChanged, seen) ==
    IF PipelineBusy(locals)
    THEN /\ positions' = [locals EXCEPT !.pending = TRUE]
         /\ raw' = [tx |-> raw.tx \/ seen.tx, pos |-> raw.pos \/ seen.pos]
         /\ events' = frames
         /\ manualIndex' = waits
    ELSE /\ positions' = [locals EXCEPT !.running = TRUE, !.pending = FALSE]
         /\ events' =
                Append(frames,
                    [stage |-> IF txChanged THEN "tx"
                               ELSE IF posChanged THEN "pos" ELSE "finally",
                     txChanged |-> txChanged, posChanged |-> posChanged,
                     txSeen |-> seen.tx, posSeen |-> seen.pos, ran |-> << >>])
         /\ raw' = NoChange
         /\ manualIndex' =
                [d \in WatchedDirs |->
                    IF /\ waits[d] = "waiting"
                       /\ (d = "rawDir" /\ txChanged) \/ (d = "positionsDir" /\ posChanged)
                    THEN "started" ELSE waits[d]]

\* the interval fires: `await Promise.all([readCsvSnapshot(rawDir), ...])`
TickRead ==
    /\ importer = "watch-fidelity"
    /\ parsed = << >>
    /\ parsed' =
            <<[newRaw |-> readCsvSnapshot(env.rawDir),
               newPos |-> readCsvSnapshot(env.positionsDir)]>>
    /\ UNCHANGED <<importer, pc, contract, events, positions, ledger, raw, manualIndex, env, calls>>

\* the rest of the interval callback, with the call of runPipeline
TickCompare ==
    /\ importer = "watch-fidelity"
    /\ parsed # << >>
    /\ parsed' = << >>
    /\ LET newRaw == parsed[1].newRaw
           newPos == parsed[1].newPos
           txChanged ==
                newRaw.signature # positions.rawState.signature /\ newRaw.csvCount > 0
           posChanged ==
                newPos.signature # positions.posState.signature /\ newPos.csvCount > 0
           locals == [positions EXCEPT !.rawState = newRaw, !.posState = newPos]
       IN  IF txChanged \/ posChanged
           THEN runPipeline(locals, events, manualIndex, txChanged, posChanged,
                            [tx |-> txChanged, pos |-> posChanged])
           ELSE /\ positions' = locals
                /\ UNCHANGED <<events, raw, manualIndex>>
    /\ UNCHANGED <<importer, pc, contract, ledger, env, calls>>

\* the invocation i has run the command and goes on to the stage
Ran(i, command, stage) ==
    [events EXCEPT ![i].ran = Append(@, command), ![i].stage = stage]

\* the importer of the folder has run in a run that started after the change
Served(dir) == [manualIndex EXCEPT ![dir] = IF @ = "started" THEN "none" ELSE @]

\* `await runImportFidelity()` returns or throws
PipelineImportFidelity ==
    /\ importer = "watch-fidelity"
    /\ \E i \in 1 .. Len(events) :
        /\ events[i].stage = "tx"
        /\ \E ok \in BOOLEAN :
            events' =
                Ran(i, "import-fidelity",
                    IF ~ok THEN "finally"
                    ELSE IF events[i].posChanged THEN "pos" ELSE "summary")
    /\ manualIndex' = Served("rawDir")
    /\ UNCHANGED <<importer, pc, contract, positions, ledger, raw, parsed, env, calls>>

\* `await runImportFidelityPositions()` returns or throws
PipelineImportPositions ==
    /\ importer = "watch-fidelity"
    /\ \E i \in 1 .. Len(events) :
        /\ events[i].stage = "pos"
        /\ \E ok \in BOOLEAN :
            events' =
                Ran(i, "import-fidelity-positions", IF ok THEN "summary" ELSE "finally")
    /\ manualIndex' = Served("positionsDir")
    /\ UNCHANGED <<importer, pc, contract, positions, ledger, raw, parsed, env, calls>>

\* `await runRebuildDailySummary()` returns or throws
PipelineSummary ==
    /\ importer = "watch-fidelity"
    /\ \E i \in 1 .. Len(events) :
        /\ events[i].stage = "summary"
        /\ events' = Ran(i, "rebuild-daily-summary", "finally")
    /\ UNCHANGED <<importer, pc, contract, positions, ledger, raw, parsed, manualIndex, env, calls>>

\* the finally block: both snapshots are read again, running is cleared and
\* a pending run is started with runPipeline(true, true); a change whose
\* importer the run did not reach waits again
PipelineFinally ==
    /\ importer = "watch-fidelity"
    /\ \E i \in 1 .. Len(events) :
        /\ events[i].stage = "finally"
        /\ LET locals ==
                    [positions EXCEPT
                        !.rawState = readCsvSnapshot(env.rawDir),
                        !.posState = readCsvSnapshot(env.positionsDir),
                        !.running = FALSE]
               frames == SubSeq(events, 1, i - 1) \o SubSeq(events, i + 1, Len(events))
               waits ==
                    [d \in WatchedDirs |->
                        IF manualIndex[d] = "started" THEN "waiting" ELSE manualIndex[d]]
           IN  IF positions.pending
               THEN runPipeline(locals, frames, waits, TRUE, TRUE, raw)
               ELSE /\ positions' = locals
                    /\ events' = frames
                    /\ manualIndex' = waits
                    /\ UNCHANGED raw
    /\ UNCHANGED <<importer, pc, contract, ledger, parsed, env, calls>>

WatchNext ==
    \/ FolderChange
    \/ TickRead
    \/ TickCompare
    \/ PipelineImportFidelity
    \/ PipelineImportPositions
    \/ PipelineSummary
    \/ PipelineFinally

SpecWatch == WatchInit /\ [][WatchNext]_vars

RanIn(run, command) == \E i \in 1 .. Len(run.ran) : run.ran[i] = command

\* C30: in a pipeline run of the watcher, import-fidelity has run only if a
\* change of the raw transactions folder was seen, import-fidelity-positions
\* only if a change of the positions folder was seen, and nothing runs
\* after rebuild-daily-summary
C30_OnlyTheNeededImporters ==
    importer = "watch-fidelity" =>
        \A r \in 1 .. Len(events) :
            /\ RanIn(events[r], "import-fidelity") => events[r].txSeen
            /\ RanIn(events[r], "import-fidelity-positions") => events[r].posSeen
            /\ \A i \in 1 .. Len(events[r].ran) :
                    events[r].ran[i] = "rebuild-daily-summary" => i = Len(events[r].ran)

\* C34: the watcher never has two pipelines in flight: running is set
\* exactly while one invocation of runPipeline is between its start and the
\* end of its finally block, and a trigger that arrives meanwhile has only
\* set pending
C34_OnePipelineAtATime ==
    importer = "watch-fidelity" =>
        /\ Len(events) <= 1
        /\ positions.running <=> Len(events) = 1
        /\ positions.pending => positions.running

\* a tick found a change while import-fidelity was running and left pending
\* set
C34_Witness ==
    /\ importer = "watch-fidelity"
    /\ Len(events) = 1
    /\ events[1].stage = "tx"
    /\ positions.running
    /\ positions.pending

\* the interval keeps firing and every awaited read and importer returns;
\* nothing makes the user change a folder
SpecWatchFair ==
    /\ WatchInit
    /\ [][WatchNext]_vars
    /\ WF_vars(TickRead)
    /\ WF_vars(TickCompare)
    /\ WF_vars(PipelineImportFidelity)
    /\ WF_vars(PipelineImportPositions)
    /\ WF_vars(PipelineSummary)
    /\ WF_vars(PipelineFinally)

\* C35: every change of a watched folder that leaves a CSV file in it is
\* eventually followed by a pipeline run that started after the change and
\* ran the importer of the folder (or by the removal of the files)
C35_NoChangeLost ==
    \A d \in WatchedDirs :
        (importer = "watch-fidelity" /\ manualIndex[d] = "waiting")
            ~> (manualIndex[d] = "none")

(***************************************************************************)
(* sync and backfill: the lot queues of runSync and runBackfill.  events   *)
(* holds the orders of one account sorted by trade date, parsed the orders *)
(* the loop has handled with the realized P/L it attached, positions the   *)
(* lotsMap of the account.                                                 *)
(***************************************************************************)
MaxOrders == 3

SyncSymbols == {"AAPL", "MSFT"}

\* the fills: a BUY of one unit at 10 or of two units at 10.005, a SELL of one
\* or two units at 15
BuyFills == {[units |-> 1, price |-> R(10)], [units |-> 2, price |-> [n |-> 2001, d |-> 200]]}

SellPrice == R(15)

\* an order of getAccountOrders: units are positive; exists says that a row
\* with its SnapTrade id or its order id is in the ledger already
SyncOrders ==
    {[type |-> "BUY", symbol |-> s, units |-> f.units, price |-> f.price, exists |-> x] :
        s \in SyncSymbols, f \in BuyFills, x \in BOOLEAN}
    \cup {[type |-> "SELL", symbol |-> s, units |-> u, price |-> SellPrice, exists |-> x] :
            s \in SyncSymbols, u \in 1 .. 2, x \in BOOLEAN}

RECURSIVE OrdersUpTo(_)
OrdersUpTo(n) ==
    IF n = 0 THEN {<< >>}
    ELSE OrdersUpTo(n - 1)
            \cup {Append(f, o) : f \in {g \in OrdersUpTo(n - 1) : Len(g) = n - 1},
                                 o \in SyncOrders}

SyncInit ==
    /\ importer \in {"sync", "backfill"}
    /\ pc = "orders"
    /\ contract = StockContract
    /\ events \in OrdersUpTo(MaxOrders) \ {<< >>}
    /\ positions = [s \in SyncSymbols |-> << >>]
    /\ ledger = << >>
    /\ raw = << >>
    /\ parsed = << >>
    /\ manualIndex = EmptyMap
    /\ env = DefaultEnv
    /\ calls = << >>

\* `while (remaining > 0 && lots.length > 0)` of a SELL
RECURSIVE consumeLots(_, _, _, _)
consumeLots(lots, remaining, price, realized) ==
    IF ~(remaining > 0 /\ Len(lots) > 0)
    THEN [lots |-> lots, remaining |-> remaining, realized |-> realized]
    ELSE LET lot == lots[1]
             used == Min(remaining, lot.qty)
             left == lot.qty - used
         IN  consumeLots(
                IF left <= 0 THEN Tail(lots) ELSE <<[lot EXCEPT !.qty = left]>> \o Tail(lots),
                remaining - used,
                price,
                RAdd(realized, RMul(RSub(price, lot.cost), R(used))))

ReverseLots(lots) == [i \in 1 .. Len(lots) |-> lots[Len(lots) + 1 - i]]

\* a lot accounting that takes the newest lot first
accountOrderNewestFirst(lots, order) ==
    IF order.type = "BUY"
    THEN [lots |-> Append(lots, [qty |-> order.units, cost |-> order.price]),
          realized |-> NullNumber, used |-> 0]
    ELSE LET out == consumeLots(ReverseLots(lots), order.units, order.price, R(0))
         IN  [lots |-> ReverseLots(out.lots), realized |-> round2(out.realized),
              used |-> order.units - out.remaining]

\* the lot accounting of one order: the lots of its key afterwards, the
\* realized_pl set on the activity (null for a BUY) and the quantity taken
\* from the lots
accountOrder(lots, order) ==
    IF order.type = "BUY"
    THEN [lots |-> Append(lots, [qty |-> order.units, cost |-> order.price]),
          realized |-> NullNumber, used |-> 0]
    ELSE LET out == consumeLots(lots, order.units, order.price, R(0))
         IN  [lots |-> out.lots, realized |-> round2(out.realized),
              used |-> order.units - out.remaining]

Handled(order, out, write) ==
    [type |-> order.type, symbol |-> order.symbol, units |-> order.units,
     price |-> order.price, exists |-> order.exists,
     realized |-> out.realized, used |-> out.used, write |-> write]

\* one turn of `for (const activity of sorted)` in runSync: an order whose
\* row exists is skipped before the lots are touched
SyncActivity ==
    /\ importer = "sync"
    /\ pc = "orders"
    /\ Len(parsed) < Len(events)
    /\ LET order == events[Len(parsed) + 1]
           out == accountOrder(positions[order.symbol], order)
       IN  IF order.exists
           THEN /\ parsed' =
                        Append(parsed,
                            Handled(order, [realized |-> NullNumber, used |-> 0], "skipped"))
                /\ UNCHANGED positions
           ELSE /\ parsed' = Append(parsed, Handled(order, out, "created"))
                /\ positions' = [positions EXCEPT ![order.symbol] = out.lots]
    /\ UNCHANGED <<importer, pc, contract, events, ledger, raw, manualIndex, env, calls>>

\* one turn of the loop in runBackfill: the lots first, then the lookup of
\* the row and its update
BackfillLots ==
    /\ importer = "backfill"
    /\ pc = "orders"
    /\ Len(parsed) < Len(events)
    /\ LET order == events[Len(parsed) + 1]
           out == accountOrder(positions[order.symbol], order)
       IN  /\ parsed' =
                Append(parsed,
                    Handled(order, out, IF order.exists THEN "updated" ELSE "missing"))
           /\ positions' = [positions EXCEPT ![order.symbol] = out.lots]
    /\ UNCHANGED <<importer, pc, contract, events, ledger, raw, manualIndex, env, calls>>

SyncReturn ==
    /\ importer \in {"sync", "backfill"}
    /\ pc = "orders"
    /\ Len(parsed) = Len(events)
    /\ pc' = "done"
    /\ UNCHANGED <<importer, contract, events, positions, ledger, raw, parsed, manualIndex, env, calls>>

SyncNext == SyncActivity \/ BackfillLots \/ SyncReturn

SpecSync == SyncInit /\ [][SyncNext]_vars

\* the orders before position n that went through the lot accounting
InLots(i) == parsed[i].write # "skipped"

\* units bought, and units taken by the sells, of the symbol before order n
RECURSIVE BoughtBefore(_, _)
BoughtBefore(n, symbol) ==
    IF n <= 1 THEN 0
    ELSE BoughtBefore(n - 1, symbol)
            + IF InLots(n - 1) /\ parsed[n - 1].symbol = symbol /\ parsed[n - 1].type = "BUY"
              THEN parsed[n - 1].units ELSE 0

RECURSIVE TakenBefore(_, _)
TakenBefore(n, symbol) ==
    IF n <= 1 THEN 0
    ELSE LET before == TakenBefore(n - 1, symbol)
         IN  IF InLots(n - 1) /\ parsed[n - 1].symbol = symbol /\ parsed[n - 1].type = "SELL"
             THEN Min(BoughtBefore(n - 1, symbol), before + parsed[n - 1].units)
             ELSE before

\* first in, first out on the axis of the units bought: the buy at i holds
\* the units from BoughtBefore(i) to BoughtBefore(i) + units, the sell at n
\* takes the units from TakenBefore(n) on
UnitsFromLot(i, n) ==
    LET symbol == parsed[n].symbol
        lotFrom == BoughtBefore(i, symbol)
        lotTo == lotFrom + parsed[i].units
        sellFrom == TakenBefore(n, symbol)
        sellTo == sellFrom + parsed[n].units
    IN  Max(0, Min(lotTo, sellTo) - Max(lotFrom, sellFrom))

RECURSIVE FifoSum(_, _)
FifoSum(i, n) ==
    IF i = 0 THEN R(0)
    ELSE RAdd(FifoSum(i - 1, n),
              IF InLots(i) /\ parsed[i].type = "BUY" /\ parsed[i].symbol = parsed[n].symbol
              THEN RMul(RSub(parsed[n].price, parsed[i].price), R(UnitsFromLot(i, n)))
              ELSE R(0))

RECURSIVE UsedBefore(_, _)
UsedBefore(n, symbol) ==
    IF n <= 1 THEN 0
    ELSE UsedBefore(n - 1, symbol)
            + IF parsed[n - 1].symbol = symbol THEN parsed[n - 1].used ELSE 0

RECURSIVE LotsQty(_)
LotsQty(lots) == IF lots = << >> THEN 0 ELSE lots[1].qty + LotsQty(Tail(lots))

\* C31: in runSync and runBackfill a SELL takes the BUY lots of its account
\* and symbol oldest first: its realized P/L is the sum, over the lots it
\* takes from, of (sell price - lot cost) * quantity taken, rounded to
\* cents; a sell beyond all lots takes only what the lots hold; the lots
\* left in a queue have quantity > 0 and hold what was bought and not taken
C31_SellConsumesLotsOldestFirst ==
    importer \in {"sync", "backfill"} =>
        /\ \A n \in 1 .. Len(parsed) :
                (InLots(n) /\ parsed[n].type = "SELL") =>
                    /\ parsed[n].realized = round2(FifoSum(n - 1, n))
                    /\ parsed[n].used =
                            Min(parsed[n].units,
                                BoughtBefore(n, parsed[n].symbol)
                                    - UsedBefore(n, parsed[n].symbol))
        /\ \A s \in SyncSymbols :
                /\ \A i \in 1 .. Len(positions[s]) : positions[s][i].qty > 0
                /\ UsedBefore(Len(parsed) + 1, s) <= BoughtBefore(Len(parsed) + 1, s)
                /\ LotsQty(positions[s])
                        = BoughtBefore(Len(parsed) + 1, s) - UsedBefore(Len(parsed) + 1, s)

\* a SELL of two units has taken the whole of the oldest lot and a part of
\* the next, at different costs
C31_Witness ==
    /\ importer \in {"sync", "backfill"}
    /\ Len(parsed) = 3
    /\ \A n \in 1 .. 3 : InLots(n) /\ parsed[n].symbol = "AAPL"
    /\ parsed[1].type = "BUY" /\ parsed[1].units = 1 /\ parsed[1].price = R(10)
    /\ parsed[2].type = "BUY" /\ parsed[2].units = 2 /\ parsed[2].price # R(10)
    /\ parsed[3].type = "SELL" /\ parsed[3].used = 2
    /\ positions["AAPL"] = <<[qty |-> 1, cost |-> parsed[2].price]>>

\* the same first-in-first-out sum over every earlier fill of the fetched
\* window, whether its row was skipped or not
RECURSIVE BoughtInWindow(_, _)
BoughtInWindow(n, symbol) ==
    IF n <= 1 THEN 0
    ELSE BoughtInWindow(n - 1, symbol)
            + IF parsed[n - 1].symbol = symbol /\ parsed[n - 1].type = "BUY"
              THEN parsed[n - 1].units ELSE 0

RECURSIVE TakenInWindow(_, _)
TakenInWindow(n, symbol) ==
    IF n <= 1 THEN 0
    ELSE LET before == TakenInWindow(n - 1, symbol)
         IN  IF parsed[n - 1].symbol = symbol /\ parsed[n - 1].type = "SELL"
             THEN Min(BoughtInWindow(n - 1, symbol), before + parsed[n - 1].units)
             ELSE before

UnitsFromFill(i, n) ==
    LET symbol == parsed[n].symbol
        lotFrom == BoughtInWindow(i, symbol)
        lotTo == lotFrom + parsed[i].units
        sellFrom == TakenInWindow(n, symbol)
        sellTo == sellFrom + parsed[n].units
    IN  Max(0, Min(lotTo, sellTo) - Max(lotFrom, sellFrom))

RECURSIVE FifoInWindow(_, _)
FifoInWindow(i, n) ==
    IF i = 0 THEN R(0)
    ELSE RAdd(FifoInWindow(i - 1, n),
              IF parsed[i].type = "BUY" /\ parsed[i].symbol = parsed[n].symbol
              THEN RMul(RSub(parsed[n].price, parsed[i].price), R(UnitsFromFill(i, n)))
              ELSE R(0))

\* C33: the realized P/L runSync attaches to a SELL row it creates is the
\* first-in-first-out P/L over all earlier BUY fills of the account and
\* symbol in the fetched window, skipped or not: the value runBackfill
\* computes for the order
C33_SyncRealizedIsWindowFifo ==
    \A n \in 1 .. Len(parsed) :
        (importer \in {"sync", "backfill"} /\ parsed[n].type = "SELL"
            /\ parsed[n].write \in {"created", "updated", "missing"})
            => parsed[n].realized = round2(FifoInWindow(n - 1, n))

(***************************************************************************)
(* Quantity conservation in the engines that keep totalOpenedQty and       *)
(* totalClosedQty.                                                         *)
(***************************************************************************)
\* the importers whose PositionState has both totals
TracksBothTotals == importer \in {"import-robinhood", "import-public-csv"}

Conserved(p) == p.totalOpenedQty - p.totalClosedQty = Abs(p.openQty)

\* C32: after every event, in every engine that keeps both totals, the
\* quantity opened minus the quantity closed is the size of the open
\* quantity: totalOpenedQty - totalClosedQty = |openQty|
C32_QuantityConserved ==
    TracksBothTotals => \A k \in DOMAIN positions : Conserved(positions[k])

(***************************************************************************)
(* archiveTradePagesByBrokerPrefix and archiveTradePagesByExactBroker,     *)
(* query by query.  ledger is the store, raw the store at the call,        *)
(* positions the locals of the function with the response it is working    *)
(* through, calls the archive calls it has made.  A query answers with the *)
(* pages from the one the cursor names on, PageSize at a time, in the      *)
(* order of the store; it lists the pages that are not archived and, in an *)
(* eventual-consistency window, some that are, and reports these as        *)
(* archived or not.                                                        *)
(***************************************************************************)
MaxStore == 3

PageSize == 2

NoCursor == 0

PagedBrokers == {"Public (CSV)", "Public"}

PagedRowTypes == {"Trade", "Daily Summary"}

PagedRecords ==
    {[broker |-> b, rowType |-> t, archived |-> a] :
        b \in PagedBrokers, t \in PagedRowTypes, a \in BOOLEAN}

PagedStores == UNION {[1 .. n -> PagedRecords] : n \in 1 .. MaxStore}

PagedCommands == {"import-public-csv", "import-public-api"}

ArchivePagesInit ==
    /\ importer \in PagedCommands
    /\ pc = "query"
    /\ contract = StockContract
    /\ events = << >>
    /\ ledger \in PagedStores
    /\ raw = ledger
    /\ positions =
            [cursor |-> NoCursor, results |-> {}, reported |-> {},
             has_more |-> FALSE, next_cursor |-> NoCursor, queries |-> 0, archived |-> 0]
    /\ parsed = << >>
    /\ manualIndex = EmptyMap
    /\ env = DefaultEnv
    /\ calls = << >>

MinOf(S) == CHOOSE x \in S : \A y \in S : x <= y

\* the n first members of S
FirstN(S, n) == {i \in S : Cardinality({j \in S : j < i}) < n}

\* `rowTypeName !== "Trade" || !brokerName.startsWith(prefix)` and the test
\* of archiveTradePagesByExactBroker, negated: the page is one to archive
PagedSelects(page) ==
    /\ page.rowType = "Trade"
    /\ IF importer = "import-public-csv"
       THEN startsWith(page.broker, "Public (CSV)")
       ELSE page.broker = "Public"

\* `await client.databases.query({ database_id, start_cursor: cursor })`
ArchivePagesQuery ==
    /\ importer \in PagedCommands
    /\ pc = "query"
    /\ pc' = "loop"
    /\ \E shown \in SUBSET {i \in DOMAIN ledger : ledger[i].archived /\ i >= positions.cursor} :
       \E flagged \in SUBSET shown :
        LET listing ==
                {i \in DOMAIN ledger :
                    i >= positions.cursor /\ (~ledger[i].archived \/ i \in shown)}
            results == FirstN(listing, PageSize)
            rest == listing \ results
        IN  positions' =
                [positions EXCEPT
                    !.results = results,
                    !.reported = flagged \cap results,
                    !.has_more = rest # {},
                    !.next_cursor = IF rest # {} THEN MinOf(rest) ELSE NoCursor,
                    !.queries = @ + 1]
    /\ UNCHANGED <<importer, contract, events, ledger, raw, parsed, manualIndex, env, calls>>

\* one turn of `for (const page of response.results)`
ArchivePagesRow ==
    /\ importer \in PagedCommands
    /\ pc = "loop"
    /\ positions.results # {}
    /\ LET i == MinOf(positions.results)
           rest == [positions EXCEPT !.results = @ \ {i}]
       IN  IF i \in positions.reported \/ ~PagedSelects(ledger[i])
           THEN /\ positions' = rest
                /\ UNCHANGED <<pc, ledger, calls>>
           ELSE \E answer \in (IF ledger[i].archived THEN {"archived"} ELSE {"ok", "other"}) :
                    /\ calls' = Append(calls, [op |-> "archive", pageId |-> i,
                                               tradeDate |-> NoDate, answer |-> answer])
                    /\ ledger' = IF answer = "ok" THEN [ledger EXCEPT ![i].archived = TRUE]
                                 ELSE ledger
                    /\ positions' = IF answer = "ok" THEN [rest EXCEPT !.archived = @ + 1]
                                    ELSE rest
                    /\ pc' = IF answer = "other" THEN "failed" ELSE pc
    /\ UNCHANGED <<importer, contract, events, raw, parsed, manualIndex, env>>

\* a loop that stops after the first response
NextCursorNone(response) == NoCursor

\* `response.has_more ? response.next_cursor ?? undefined : undefined`
NextCursor(response) == IF response.has_more THEN response.next_cursor ELSE NoCursor

\* `cursor = ...; } while (cursor); return { archived }`
ArchivePagesCursor ==
    /\ importer \in PagedCommands
    /\ pc = "loop"
    /\ positions.results = {}
    /\ positions' = [positions EXCEPT !.cursor = NextCursor(positions)]
    /\ pc' = IF NextCursor(positions) # NoCursor THEN "query" ELSE "returned"
    /\ UNCHANGED <<importer, contract, events, ledger, raw, parsed, manualIndex, env, calls>>

ArchivePagesNext == ArchivePagesQuery \/ ArchivePagesRow \/ ArchivePagesCursor

\* every awaited call of the store returns
SpecArchivePages ==
    ArchivePagesInit /\ [][ArchivePagesNext]_vars /\ WF_vars(ArchivePagesNext)

ArchiveCallsOn(i) == {k \in 1 .. Len(calls) : calls[k].pageId = i}

\* C36: archiveTradePagesByBrokerPrefix (and its exact-broker twin) ends on
\* every store; when it returns, no Trade record of the broker is left
\* unarchived, the records it does not select are as they were, and no
\* record has had more than one archive call
C36_ArchivesEveryMatchOnce ==
    /\ [](importer \in PagedCommands =>
            /\ pc = "returned" =>
                    \A i \in DOMAIN ledger : PagedSelects(ledger[i]) => ledger[i].archived
            /\ \A i \in DOMAIN ledger :
                /\ ~PagedSelects(raw[i]) => ledger[i] = raw[i]
                /\ Cardinality(ArchiveCallsOn(i)) <= 1)
    /\ <>(importer \in PagedCommands => pc \in {"returned", "failed"})

\* the function returned after a second query, having archived a record of
\* the first response and one of the second
C36_Witness ==
    /\ importer = "import-public-csv"
    /\ pc = "returned"
    /\ positions.queries >= 2
    /\ \E k \in 1 .. Len(calls) : calls[k].answer = "ok" /\ calls[k].pageId <= PageSize
    /\ \E k \in 1 .. Len(calls) : calls[k].answer = "ok" /\ calls[k].pageId > PageSize

(***************************************************************************)
(* rebuild-daily-summary: runRebuildDailySummary.  ledger is the store     *)
(* (trade rows and Daily Summary rows), raw the store at the start,        *)
(* positions the locals of the run.  fetchAllRows reads the query results  *)
(* as they come: pages that are not archived and, in an                    *)
(* eventual-consistency window, pages that are.                            *)
(***************************************************************************)
SummaryDates == {1, 2}

TradeRow(status, closeDate, pl, archived) ==
    [rowType |-> "Trade", status |-> status, closeDate |-> closeDate, pl |-> pl,
     archived |-> archived, summaryDate |-> NoDate, dayPL |-> NullNumber,
     closedTrades |-> 0, winCount |-> 0, lossCount |-> 0]

\* buildSummaryProperties: the properties of the Daily Summary row of an
\* aggregate
buildSummaryProperties(agg) ==
    [rowType |-> "Daily Summary", status |-> "", closeDate |-> NoDate, pl |-> NullNumber,
     archived |-> FALSE, summaryDate |-> agg.date, dayPL |-> round2(agg.dayPL),
     closedTrades |-> agg.closedTrades, winCount |-> agg.winCount,
     lossCount |-> agg.lossCount]

\* the trade rows a store holds: closed rows with their close date and P/L,
\* some of them archived by an importer, and open rows
SummaryTradeRows ==
    {TradeRow("CLOSED", d, pl, a) :
        d \in SummaryDates, pl \in {NullNumber, R(0 - 5), R(10)}, a \in BOOLEAN}
        \cup {TradeRow("OPEN", NoDate, NullNumber, FALSE)}

\* the summary an earlier run left for the date
OldSummary(date) ==
    buildSummaryProperties(
        [date |-> date, dayPL |-> R(1), closedTrades |-> 1, winCount |-> 1, lossCount |-> 0])

RECURSIVE SummariesOf(_)
SummariesOf(dates) ==
    IF dates = {} THEN << >>
    ELSE LET d == CHOOSE x \in dates : \A y \in dates : x <= y
         IN  <<OldSummary(d)>> \o SummariesOf(dates \ {d})

SummaryStores ==
    {trades \o SummariesOf(dates) :
        trades \in UNION {[1 .. n -> SummaryTradeRows] : n \in 0 .. MaxStore},
        dates \in SUBSET SummaryDates}

DailySummaryInit ==
    /\ importer = "rebuild-daily-summary"
    /\ pc = "fetch"
    /\ contract = StockContract
    /\ events = << >>
    /\ ledger \in SummaryStores
    /\ raw = ledger
    /\ positions = EmptyMap
    /\ parsed = << >>
    /\ manualIndex = EmptyMap
    /\ env = DefaultEnv
    /\ calls = << >>

\* buildAggregates over the rows the query listed, in their order
RECURSIVE buildAggregatesFrom(_, _, _, _)
buildAggregatesFrom(rows, listed, k, byDate) ==
    IF k > Len(rows) THEN byDate
    ELSE LET row == rows[k]
         IN  IF \/ k \notin listed
                \/ row.rowType = "Daily Summary"
                \/ row.status # "CLOSED"
                \/ row.closeDate = NoDate
             THEN buildAggregatesFrom(rows, listed, k + 1, byDate)
             ELSE LET current ==
                        IF row.closeDate \in DOMAIN byDate THEN byDate[row.closeDate]
                        ELSE [date |-> row.closeDate, dayPL |-> R(0), closedTrades |-> 0,
                              winCount |-> 0, lossCount |-> 0]
                      counted == [current EXCEPT !.closedTrades = @ + 1]
                      next ==
                        IF row.pl = NullNumber THEN counted
                        ELSE [counted EXCEPT
                                !.dayPL = RAdd(@, row.pl),
                                !.winCount = IF RLess(R(0), row.pl) THEN @ + 1 ELSE @,
                                !.lossCount = IF RLess(row.pl, R(0)) THEN @ + 1 ELSE @]
                  IN  buildAggregatesFrom(rows, listed, k + 1,
                                          MapSet(byDate, row.closeDate, next))

buildAggregates(rows, listed) == buildAggregatesFrom(rows, listed, 1, EmptyMap)

\* mapSummaryRows: the ids of the listed Daily Summary rows that have a date
mapSummaryRows(rows, listed) ==
    {i \in listed : rows[i].rowType = "Daily Summary" /\ rows[i].summaryDate # NoDate}

\* `new Map(existingSummaries.map(...))`: a later row of the date overwrites
summaryByDate(rows, summaries) ==
    [d \in {rows[i].summaryDate : i \in summaries} |->
        CHOOSE i \in summaries :
            /\ rows[i].summaryDate = d
            /\ \A j \in summaries : rows[j].summaryDate = d => j <= i]

\* fetchAllRows and the three maps built from its rows
DailyFetch ==
    /\ importer = "rebuild-daily-summary"
    /\ pc = "fetch"
    /\ pc' = "aggregates"
    /\ \E shown \in SUBSET {i \in DOMAIN ledger : ledger[i].archived} :
        LET listed == {i \in DOMAIN ledger : ~ledger[i].archived \/ i \in shown}
            summaries == mapSummaryRows(ledger, listed)
        IN  positions' =
                [aggregates |-> buildAggregates(ledger, listed),
                 existingSummaries |-> summaries,
                 summaryByDate |-> summaryByDate(ledger, summaries),
                 done |-> {},
                 created |-> 0, updated |-> 0, archived |-> 0]
    /\ UNCHANGED <<importer, contract, events, ledger, raw, parsed, manualIndex, env, calls>>

\* one turn of `for (const agg of aggregates)`, in the order of the dates
DailyUpsert ==
    /\ importer = "rebuild-daily-summary"
    /\ pc = "aggregates"
    /\ LET todo == DOMAIN positions.aggregates \ positions.done
       IN  IF todo = {}
           THEN /\ pc' = "summaries"
                /\ positions' = [positions EXCEPT !.done = {}]
                /\ UNCHANGED ledger
           ELSE LET date == MinOf(todo)
                    properties == buildSummaryProperties(positions.aggregates[date])
                IN  /\ pc' = pc
                    /\ IF date \in DOMAIN positions.summaryByDate
                       THEN /\ ledger' =
                                    [ledger EXCEPT ![positions.summaryByDate[date]] = properties]
                            /\ positions' =
                                    [positions EXCEPT !.done = @ \cup {date}, !.updated = @ + 1]
                       ELSE /\ ledger' = Append(ledger, properties)
                            /\ positions' =
                                    [positions EXCEPT !.done = @ \cup {date}, !.created = @ + 1]
    /\ UNCHANGED <<importer, contract, events, raw, parsed, manualIndex, env, calls>>

\* one turn of `for (const summary of existingSummaries)`, and the return
DailyArchive ==
    /\ importer = "rebuild-daily-summary"
    /\ pc = "summaries"
    /\ LET todo == positions.existingSummaries \ positions.done
       IN  IF todo = {}
           THEN /\ pc' = "returned"
                /\ UNCHANGED <<positions, ledger>>
           ELSE LET i == MinOf(todo)
                IN  /\ pc' = pc
                    /\ IF ledger[i].summaryDate \notin DOMAIN positions.aggregates
                       THEN /\ ledger' = [ledger EXCEPT ![i].archived = TRUE]
                            /\ positions' =
                                    [positions EXCEPT !.done = @ \cup {i}, !.archived = @ + 1]
                       ELSE /\ ledger' = ledger
                            /\ positions' = [positions EXCEPT !.done = @ \cup {i}]
    /\ UNCHANGED <<importer, contract, events, raw, parsed, manualIndex, env, calls>>

DailySummaryNext == DailyFetch \/ DailyUpsert \/ DailyArchive

SpecDailySummary == DailySummaryInit /\ [][DailySummaryNext]_vars

\* the closed trade rows of the date that are not archived
ClosedOn(date) ==
    {i \in DOMAIN ledger :
        /\ ledger[i].rowType = "Trade"
        /\ ~ledger[i].archived
        /\ ledger[i].status = "CLOSED"
        /\ ledger[i].closeDate = date}

LiveSummaries(date) ==
    {i \in DOMAIN ledger :
        /\ ledger[i].rowType = "Daily Summary"
        /\ ~ledger[i].archived
        /\ ledger[i].summaryDate = date}

RECURSIVE SumPl(_)
SumPl(rows) ==
    IF rows = {} THEN R(0)
    ELSE LET i == CHOOSE x \in rows : TRUE
         IN  RAdd(IF ledger[i].pl = NullNumber THEN R(0) ELSE ledger[i].pl,
                  SumPl(rows \ {i}))

\* C37: after runRebuildDailySummary there is exactly one Daily Summary row
\* that is not archived for each date that has a closed trade row that is
\* not archived, and none for another date; its Day P/L is the sum of the
\* P/L of those rows, Closed Trades their number, and Win Count + Loss
\* Count is at most Closed Trades
C37_OneSummaryPerCloseDate ==
    (importer = "rebuild-daily-summary" /\ pc = "returned") =>
        \A date \in SummaryDates :
            IF ClosedOn(date) = {}
            THEN LiveSummaries(date) = {}
            ELSE /\ Cardinality(LiveSummaries(date)) = 1
                 /\ \A i \in LiveSummaries(date) :
                        /\ ledger[i].dayPL = round2(SumPl(ClosedOn(date)))
                        /\ ledger[i].closedTrades = Cardinality(ClosedOn(date))
                        /\ ledger[i].winCount + ledger[i].lossCount <= ledger[i].closedTrades

(***************************************************************************)
(* The rows of the file importers and of the rebuilds side by side, for    *)
(* what their CLOSED and OPEN rows carry.                                  *)
(***************************************************************************)
RowWriters == {"import-robinhood"} \cup ApiImporters

SpecRowWriters == (RobinhoodInit \/ ApiInit) /\ [][RobinhoodNext \/ ApiNext]_vars

PlTolerance == 1

AuditInit ==
    /\ importer = "audit-robinhood-pl"
    /\ pc = "events"
    /\ contract \in Contracts
    /\ events = << >>
    /\ positions = EmptyMap
    /\ ledger = << >>
    /\ raw = << >>
    /\ parsed = EmptyMap
    /\ manualIndex = EmptyMap
    /\ env = DefaultEnv
    /\ calls = << >>

\* a model that only nets the quantities
plModelStepNoReset(p, e) ==
    IF e.action = "BUY"
    THEN [p EXCEPT !.openQty = @ + e.qty]
    ELSE [p EXCEPT !.openQty = @ - e.qty]

\* the body of `for (const e of events)` of the audit's "Full PL model"
plModelStep(p, e) ==
    IF e.action = "BUY"
    THEN IF p.openQty >= 0
         THEN LET newQty == p.openQty + e.qty
              IN  [p EXCEPT
                    !.avgOpenPrice =
                        WeightedAvg(p.openQty, p.avgOpenPrice, e.qty, e.price, newQty),
                    !.openQty = newQty]
         ELSE LET shortQty == Abs(p.openQty)
                  closingQty == Min(e.qty, shortQty)
                  covered ==
                    [p EXCEPT
                        !.realizedPl =
                            RAdd(@, RMul(RSub(p.avgOpenPrice, R(e.price)),
                                         R(closingQty * e.multiplier))),
                        !.openQty = @ + closingQty]
                  remainder == e.qty - closingQty
              IN  IF remainder > 0
                  THEN [covered EXCEPT !.openQty = remainder, !.avgOpenPrice = R(e.price)]
                  ELSE covered
    ELSE IF p.openQty <= 0
         THEN LET shortQty == Abs(p.openQty)
                  newQty == shortQty + e.qty
              IN  [p EXCEPT
                    !.avgOpenPrice =
                        WeightedAvg(shortQty, p.avgOpenPrice, e.qty, e.price, newQty),
                    !.openQty = -newQty]
         ELSE LET closingQty == Min(e.qty, p.openQty)
                  closed ==
                    [p EXCEPT
                        !.realizedPl =
                            RAdd(@, RMul(RSub(R(e.price), p.avgOpenPrice),
                                         R(closingQty * e.multiplier))),
                        !.openQty = @ - closingQty]
                  remainder == e.qty - closingQty
              IN  IF remainder > 0
                  THEN [closed EXCEPT !.openQty = -remainder, !.avgOpenPrice = R(e.price)]
                  ELSE closed

\* one event of the sorted list, through the engine of the import and
\* through the model of the audit
AuditApplyEvent ==
    /\ importer = "audit-robinhood-pl"
    /\ pc = "events"
    /\ Len(events) < MaxEvents
    /\ \E e \in RobinhoodEvents :
        /\ CanFollow(e)
        /\ LET key == StateKey(e)
               p == IF key \in DOMAIN positions THEN positions[key]
                    ELSE NewPositionRobinhood(e)
               m == IF e.contractKey \in DOMAIN parsed THEN parsed[e.contractKey]
                    ELSE [openQty |-> 0, avgOpenPrice |-> R(0), realizedPl |-> R(0)]
           IN  /\ positions' = MapSet(positions, key, upsertPositionFromEventRobinhood(p, e))
               /\ parsed' = MapSet(parsed, e.contractKey, plModelStep(m, e))
        /\ events' = Append(events, e)
    /\ UNCHANGED <<importer, pc, contract, ledger, raw, manualIndex, env, calls>>

\* the rows runImportRobinhood writes for the positions
ImportedRows ==
    IF \E k \in DOMAIN positions : ~RobinhoodSkips(positions[k])
    THEN <<RobinhoodPage(positions[StateKey(contract)])>>
    ELSE << >>

\* the plMismatches of the plModel against the rows
plMismatches(plModel, rows) ==
    LET notionRows ==
            [k \in {rows[i].contractKey : i \in 1 .. Len(rows)} |->
                rows[CHOOSE i \in 1 .. Len(rows) :
                        /\ rows[i].contractKey = k
                        /\ \A j \in 1 .. Len(rows) : rows[j].contractKey = k => j <= i]]
        Mismatch(k) ==
            /\ k \in DOMAIN notionRows
            /\ plModel[k].openQty = 0
            /\ LET csvPl == round2(plModel[k].realizedPl)
                   notionPl == notionRows[k].plAtClose
                   delta ==
                        round2(RSub(csvPl, IF notionPl = NullNumber THEN R(0) ELSE notionPl))
               IN  \/ notionPl = NullNumber
                   \/ RLess(R(PlTolerance), delta)
                   \/ RLess(delta, R(0 - PlTolerance))
    IN  {k \in DOMAIN plModel : Mismatch(k)}

\* the query of the store and the comparison
AuditCompare ==
    /\ importer = "audit-robinhood-pl"
    /\ pc = "events"
    /\ pc' = "audited"
    /\ ledger' = ImportedRows
    /\ calls' =
            IF plMismatches(parsed, ImportedRows) = {} THEN << >>
            ELSE <<[op |-> "plMismatch", pageId |-> 1, tradeDate |-> NoDate]>>
    /\ UNCHANGED <<importer, contract, events, positions, raw, parsed, manualIndex, env>>

AuditNext == AuditApplyEvent \/ AuditCompare

SpecAuditRobinhood == AuditInit /\ [][AuditNext]_vars

\* C39: on every event sequence of one contract the model of the audit and
\* the engine of the import hold the same openQty, avgOpenPrice and
\* realizedPl after each event, and the audit of the rows the import wrote
\* from those events reports no realized-P/L mismatch
C39_AuditModelAgreesWithEngine ==
    importer = "audit-robinhood-pl" =>
        /\ DOMAIN parsed = DOMAIN positions
        /\ \A k \in DOMAIN parsed :
            /\ parsed[k].openQty = positions[k].openQty
            /\ parsed[k].avgOpenPrice = positions[k].avgOpenPrice
            /\ parsed[k].realizedPl = positions[k].realizedPl
        /\ pc = "audited" => calls = << >>

\* the audit compared a position that was flipped and then closed with a
\* realized P/L
C39_Witness ==
    /\ importer = "audit-robinhood-pl"
    /\ pc = "audited"
    /\ Len(events) = MaxEvents
    /\ events[1].action = "BUY"
    /\ events[2].action = "SELL"
    /\ events[2].qty > events[1].qty
    /\ events[3].action = "BUY"
    /\ Len(ledger) = 1
    /\ ledger[1].status = "CLOSED"
    /\ \A k \in DOMAIN parsed : parsed[k].openQty = 0 /\ parsed[k].realizedPl # R(0)

(***************************************************************************)
(* runImportPublicCsv with PUBLIC_CSV_CLOSE_CUTOFF_DATE set to a date of   *)
(* the rows, or left unset.                                                *)
(***************************************************************************)
CutoffEnvs ==
    {DefaultEnv} \cup
    {[dryRun |-> FALSE, forceExpireClose |-> FALSE, closeCutoff |-> MaxDate - 1]}

PublicCsvCutoffInit ==
    /\ importer = "import-public-csv"
    /\ pc = "events"
    /\ contract \in Contracts
    /\ events = << >>
    /\ positions = EmptyMap
    /\ ledger = << >>
    /\ raw = << >>
    /\ parsed = << >>
    /\ manualIndex = EmptyMap
    /\ env \in CutoffEnvs
    /\ calls = << >>

SpecPublicCsvCutoff == PublicCsvCutoffInit /\ [][PublicCsvNext]_vars

\* the rows the run created
CreatedByPublicCsv == {i \in 1 .. Len(ledger) : ledger[i].broker = "Public (CSV)"}

\* C40: every row runImportPublicCsv created is CLOSED at the end of the
\* run, with a close date on or before the close cutoff: createdRows =
\* closedRows and openRows = 0
C40_CreatedRowsAreClosed ==
    (importer = "import-public-csv" /\ pc = "done") =>
        \A i \in CreatedByPublicCsv :
            /\ ledger[i].status = "CLOSED"
            /\ ledger[i].closeDate # NoDate
            /\ ledger[i].closeDate <= CloseCutoffDate

\* with the cutoff on a date of the rows, a position closed on that date
\* was written
C40_Witness ==
    /\ importer = "import-public-csv"
    /\ pc = "done"
    /\ "closeCutoff" \in DOMAIN env
    /\ \E i \in CreatedByPublicCsv :
        /\ ledger[i].status = "CLOSED"
        /\ ledger[i].closeDate = env.closeCutoff

====
